---- MODULE Spec2Model ----
(***************************************************************************)
(* Model of the tender recommendation service: the ScoringService of       *)
(* app/services/scoring.py (six weighted criteria, exclusions, ranking,    *)
(* categorisation) and the recommendation endpoint of                      *)
(* app/routes/recommend.py that drives it.                                 *)
(*                                                                         *)
(* Representation.                                                         *)
(*  - A Python str is a sequence of one-character strings.                 *)
(*  - An Optional value is << >> (None) or <<v>>.                          *)
(*  - A sub-score s in [0,1] is the integer s * Scale; a total is the      *)
(*    integer total * 100 * Scale (the weights are kept in hundredths), so *)
(*    that every product and quotient of the code is exact.                *)
(*  - A datetime is an integer number of hours; timedelta.days is the      *)
(*    floor division by HoursPerDay.                                       *)
(*  - A reason or penalty message is the fixed part of its f-string.       *)
(*  - Val({e : x \in {d}}) is e with x standing for d: a local variable     *)
(*    that is assigned once and then read.                                  *)
(***************************************************************************)
EXTENDS Integers, Sequences, FiniteSets, TLC

\* ------------------------------------------------------------------------
\* Bounds of the model
\* ------------------------------------------------------------------------
MaxClock == 1
MaxAppels == 3
MaxLimite == 2

\* ------------------------------------------------------------------------
\* Fixed-point representation of floats
\* ------------------------------------------------------------------------
Scale == 42 * 100
TotalScale == 100 * Scale

HoursPerDay == 24

\* the element of a one-element set
Val(S) == CHOOSE v \in S : TRUE

Max(a, b) == IF a >= b THEN a ELSE b
Min(a, b) == IF a <= b THEN a ELSE b

\* ------------------------------------------------------------------------
\* Python str operations
\* ------------------------------------------------------------------------
None == << >>
Some(v) == <<v>>

\* bool(x) of an Optional[float]: None and 0 are falsy
TruthyNum(x) == x # None /\ x[1] # 0
\* bool(x) of an Optional[str]: None and "" are falsy
TruthyStr(x) == x # None /\ x[1] # << >>

\* str.lower() of one character: the capitals of ASCII and the accented
\* capitals of Latin-1 that the texts use
LowerChar(c) ==
    CASE c = "A" -> "a" [] c = "B" -> "b" [] c = "C" -> "c" [] c = "D" -> "d"
      [] c = "E" -> "e" [] c = "F" -> "f" [] c = "G" -> "g" [] c = "H" -> "h"
      [] c = "I" -> "i" [] c = "J" -> "j" [] c = "K" -> "k" [] c = "L" -> "l"
      [] c = "M" -> "m" [] c = "N" -> "n" [] c = "O" -> "o" [] c = "P" -> "p"
      [] c = "Q" -> "q" [] c = "R" -> "r" [] c = "S" -> "s" [] c = "T" -> "t"
      [] c = "U" -> "u" [] c = "V" -> "v" [] c = "W" -> "w" [] c = "X" -> "x"
      [] c = "Y" -> "y" [] c = "Z" -> "z" [] c = "À" -> "à" [] c = "Â" -> "â"
      [] c = "Ä" -> "ä" [] c = "É" -> "é" [] c = "È" -> "è" [] c = "Ê" -> "ê"
      [] c = "Ë" -> "ë" [] c = "Ï" -> "ï" [] c = "Î" -> "î" [] c = "Ô" -> "ô"
      [] c = "Ö" -> "ö" [] c = "Ù" -> "ù" [] c = "Û" -> "û" [] c = "Ü" -> "ü"
      [] c = "Ñ" -> "ñ" [] c = "Ç" -> "ç"
      [] OTHER -> c

\* str.lower()
Lower(s) == [i \in 1..Len(s) |-> LowerChar(s[i])]

\* str.isspace() of one character
IsSpace(c) == c \in {" ", "\t", "\n", "\r"}

\* str.strip()
RECURSIVE LStrip(_)
LStrip(s) == IF s # << >> /\ IsSpace(Head(s)) THEN LStrip(Tail(s)) ELSE s
RECURSIVE RStrip(_)
RStrip(s) ==
    IF s # << >> /\ IsSpace(s[Len(s)]) THEN RStrip(SubSeq(s, 1, Len(s) - 1)) ELSE s
Strip(s) == RStrip(LStrip(s))

\* `sub in s` for two str
Contains(s, sub) ==
    \E i \in 0..(Len(s) - Len(sub)) : SubSeq(s, i + 1, i + Len(sub)) = sub

\* `x in xs` for a list
InList(x, xs) == \E i \in 1..Len(xs) : xs[i] = x

MapLower(xs) == [i \in 1..Len(xs) |-> Lower(xs[i])]
MapLowerStrip(xs) == [i \in 1..Len(xs) |-> Strip(Lower(xs[i]))]

\* ------------------------------------------------------------------------
\* difflib.SequenceMatcher(None, a, b).ratio()
\* Positions are 0-based and ranges half-open, as in difflib.
\* ------------------------------------------------------------------------
\* length of the common run of a and b that starts at a[i], b[j] inside the window
RECURSIVE RunFrom(_, _, _, _, _, _)
RunFrom(a, b, i, j, ahi, bhi) ==
    IF i >= ahi \/ j >= bhi THEN 0
    ELSE IF a[i + 1] # b[j + 1] THEN 0
    ELSE 1 + RunFrom(a, b, i + 1, j + 1, ahi, bhi)

\* the common runs of the window, each by its start in a, its start in b and
\* its length
Blocks(a, b, alo, ahi, blo, bhi) ==
    { [i |-> c[1], j |-> c[2], k |-> RunFrom(a, b, c[1], c[2], ahi, bhi)] :
        c \in {d \in (alo..(ahi - 1)) \X (blo..(bhi - 1)) : a[d[1] + 1] = b[d[2] + 1]} }

\* find_longest_match: the longest block, earliest in a, then earliest in b
find_longest_match(a, b, alo, ahi, blo, bhi) ==
    Val({ IF S = {} THEN [i |-> alo, j |-> blo, k |-> 0]
          ELSE CHOOSE m \in S :
                   \A o \in S :
                       \/ m.k > o.k
                       \/ /\ m.k = o.k
                          /\ \/ m.i < o.i
                             \/ m.i = o.i /\ m.j <= o.j
        : S \in {Blocks(a, b, alo, ahi, blo, bhi)} })

\* sum of the sizes of get_matching_blocks(): the longest block, then the
\* same on its left and on its right
RECURSIVE MatchingSize(_, _, _, _, _, _)
MatchingSize(a, b, alo, ahi, blo, bhi) ==
    IF alo >= ahi \/ blo >= bhi THEN 0
    ELSE Val({ IF m.k = 0 THEN 0
               ELSE m.k + MatchingSize(a, b, alo, m.i, blo, m.j)
                        + MatchingSize(a, b, m.i + m.k, ahi, m.j + m.k, bhi)
             : m \in {find_longest_match(a, b, alo, ahi, blo, bhi)} })

\* ratio() as the fraction num / den = 2 * matches / total length; 1.0 when
\* both strings are empty
Ratio(x, y) ==
    Val({ IF Len(a) + Len(b) = 0 THEN [num |-> 1, den |-> 1]
          ELSE [num |-> 2 * MatchingSize(a, b, 0, Len(a), 0, Len(b)),
                den |-> Len(a) + Len(b)]
        : a \in {x}, b \in {y} })

\* ------------------------------------------------------------------------
\* ScoringService: configuration set by __init__
\* ------------------------------------------------------------------------
Criteres == <<"secteur", "geographique", "financier", "temporel", "mots_cles", "classification">>

\* variant: the weights of the sector and of the geography exchanged
poids_echanges ==
    [secteur |-> 20, geographique |-> 25, financier |-> 20,
     temporel |-> 15, mots_cles |-> 15, classification |-> 5]

\* self.poids, in hundredths
poids ==
    [secteur |-> 25, geographique |-> 20, financier |-> 20,
     temporel |-> 15, mots_cles |-> 15, classification |-> 5]

\* variant: a table of weights that adds up to 1.1
ScoringService_poids_non_normalises ==
    [poids |-> [poids EXCEPT !.classification = 15],
     seuil_recommandation |-> 6 * (TotalScale \div 10),
     seuil_haute_pertinence |-> 8 * (TotalScale \div 10)]

\* the state of a new ScoringService(); thresholds in units of 1 / TotalScale
ScoringService ==
    [poids |-> poids,
     seuil_recommandation |-> 6 * (TotalScale \div 10),
     seuil_haute_pertinence |-> 8 * (TotalScale \div 10)]

\* what a sub-score function leaves behind: its return value and the two
\* lists it appended to; exc names the exception it raised, if any
Ret(score, raisons, penalites) ==
    [score |-> score, raisons |-> raisons, penalites |-> penalites, exc |-> "none"]
Raise(exc, raisons, penalites) ==
    [score |-> 0, raisons |-> raisons, penalites |-> penalites, exc |-> exc]

\* ------------------------------------------------------------------------
\* 1. sector
\* ------------------------------------------------------------------------
\* the loop of lines 97-100: the largest ratio, starting from max_similarity
RECURSIVE MaxSimilarity(_, _, _)
MaxSimilarity(secteurs, cible, max_similarity) ==
    IF secteurs = << >> THEN max_similarity
    ELSE Val({ MaxSimilarity(Tail(secteurs), cible,
                             IF similarity.num * m.den > m.num * similarity.den
                             THEN similarity ELSE m)
             : similarity \in {Ratio(Lower(Head(secteurs)), cible)},
               m \in {max_similarity} })

\* variant: the two thresholds of similarity are reached by equality
_score_secteur_bornes_larges(profil, appel_offre, raisons, penalites) ==
    IF profil.secteur_activite = << >> THEN Ret(Scale \div 2, raisons, penalites)
    ELSE IF InList(Lower(appel_offre.secteur), MapLower(profil.secteur_activite))
    THEN Ret(Scale, Append(raisons, "Secteur correspond a vos activites"), penalites)
    ELSE Val({ IF 10 * m.num >= 7 * m.den
               THEN Ret((m.num * Scale) \div m.den,
                        Append(raisons, "Secteur similaire a vos activites"), penalites)
               ELSE IF 10 * m.num >= 4 * m.den
               THEN Ret((m.num * Scale) \div m.den, raisons, penalites)
               ELSE Ret(Scale \div 10, raisons,
                        Append(penalites, "Secteur eloigne de vos activites"))
             : m \in {MaxSimilarity(profil.secteur_activite, Lower(appel_offre.secteur),
                                    [num |-> 0, den |-> 1])} })

\* variant: a profile sector contained in the sector of the tender counts as
\* an exact correspondence
_score_secteur_sous_chaine(profil, appel_offre, raisons, penalites) ==
    IF profil.secteur_activite = << >> THEN Ret(Scale \div 2, raisons, penalites)
    ELSE IF \E k \in 1..Len(profil.secteur_activite) :
                Contains(Lower(appel_offre.secteur), Lower(profil.secteur_activite[k]))
    THEN Ret(Scale, Append(raisons, "Secteur correspond a vos activites"), penalites)
    ELSE Val({ IF 10 * m.num > 7 * m.den
               THEN Ret((m.num * Scale) \div m.den,
                        Append(raisons, "Secteur similaire a vos activites"), penalites)
               ELSE IF 10 * m.num > 4 * m.den
               THEN Ret((m.num * Scale) \div m.den, raisons, penalites)
               ELSE Ret(Scale \div 10, raisons,
                        Append(penalites, "Secteur eloigne de vos activites"))
             : m \in {MaxSimilarity(profil.secteur_activite, Lower(appel_offre.secteur),
                                    [num |-> 0, den |-> 1])} })

_score_secteur(profil, appel_offre, raisons, penalites) ==
    IF profil.secteur_activite = << >> THEN Ret(Scale \div 2, raisons, penalites)
    ELSE IF InList(Lower(appel_offre.secteur), MapLower(profil.secteur_activite))
    THEN Ret(Scale, Append(raisons, "Secteur correspond a vos activites"), penalites)
    ELSE Val({ IF 10 * m.num > 7 * m.den
               THEN Ret((m.num * Scale) \div m.den,
                        Append(raisons, "Secteur similaire a vos activites"), penalites)
               ELSE IF 10 * m.num > 4 * m.den
               THEN Ret((m.num * Scale) \div m.den, raisons, penalites)
               ELSE Ret(Scale \div 10, raisons,
                        Append(penalites, "Secteur eloigne de vos activites"))
             : m \in {MaxSimilarity(profil.secteur_activite, Lower(appel_offre.secteur),
                                    [num |-> 0, den |-> 1])} })

\* ------------------------------------------------------------------------
\* 2. geography
\* ------------------------------------------------------------------------
regions_maroc ==
    << << <<"c", "a", "s", "a", "b", "l", "a", "n", "c", "a">>,
          <<"m", "o", "h", "a", "m", "m", "e", "d", "i", "a">>,
          <<"s", "e", "t", "t", "a", "t">>,
          <<"b", "e", "r", "r", "e", "c", "h", "i", "d">> >>,
       << <<"r", "a", "b", "a", "t">>,
          <<"s", "a", "l", "e">>,
          <<"t", "e", "m", "a", "r", "a">>,
          <<"s", "k", "h", "i", "r", "a", "t">> >>,
       << <<"f", "e", "s">>,
          <<"m", "e", "k", "n", "e", "s">>,
          <<"i", "f", "r", "a", "n", "e">>,
          <<"k", "h", "e", "n", "i", "f", "r", "a">> >>,
       << <<"m", "a", "r", "r", "a", "k", "e", "c", "h">>,
          <<"e", "s", "s", "a", "o", "u", "i", "r", "a">>,
          <<"s", "a", "f", "i">>,
          <<"k", "e", "l", "a", "a">> >>,
       << <<"t", "a", "n", "g", "e", "r">>,
          <<"t", "e", "t", "o", "u", "a", "n">>,
          <<"l", "a", "r", "a", "c", "h", "e">>,
          <<"c", "h", "e", "f", "c", "h", "a", "o", "u", "e", "n">> >>,
       << <<"o", "u", "j", "d", "a">>,
          <<"n", "a", "d", "o", "r">>,
          <<"b", "e", "r", "k", "a", "n", "e">>,
          <<"t", "a", "o", "u", "r", "i", "r", "t">> >>,
       << <<"a", "g", "a", "d", "i", "r">>,
          <<"t", "i", "z", "n", "i", "t">>,
          <<"t", "a", "r", "o", "u", "d", "a", "n", "t">>,
          <<"o", "u", "a", "r", "z", "a", "z", "a", "t", "e">> >> >>

_meme_region_maroc(villes_preferees, ville_appel) ==
    IF villes_preferees = << >> THEN FALSE
    ELSE LET ville_appel_lower == Lower(ville_appel)
             villes_pref_lower == MapLower(villes_preferees)
         IN  \E r \in 1..Len(regions_maroc) :
                 /\ InList(ville_appel_lower, regions_maroc[r])
                 /\ \E i \in 1..Len(villes_pref_lower) :
                        InList(villes_pref_lower[i], regions_maroc[r])

_score_geographique(profil, appel_offre, raisons, penalites) ==
    LET ville_appel == Strip(Lower(appel_offre.ville))
    IN  IF /\ profil.villes_preferees # << >>
           /\ InList(ville_appel, MapLowerStrip(profil.villes_preferees))
        THEN Ret(Scale, Append(raisons, "Situe dans votre zone preferee"), penalites)
        ELSE IF profil.rayon_intervention = "national"
        THEN Ret((8 * Scale) \div 10,
                 Append(raisons, "Compatible avec votre rayon d'intervention national"),
                 penalites)
        ELSE IF profil.rayon_intervention = "regional"
        THEN IF _meme_region_maroc(profil.villes_preferees, ville_appel)
             THEN Ret((9 * Scale) \div 10,
                      Append(raisons, "Dans votre region d'intervention"), penalites)
             ELSE Ret((4 * Scale) \div 10, raisons, penalites)
        ELSE IF profil.rayon_intervention = "local"
        THEN Ret((2 * Scale) \div 10, raisons,
                 Append(penalites, "Ville hors de votre zone locale"))
        ELSE Ret(Scale \div 2, raisons, penalites)

\* ------------------------------------------------------------------------
\* 3. finance
\* ------------------------------------------------------------------------
\* lines 145-153: the budget stage
BudgetStage(profil, appel_offre, r) ==
    IF TruthyNum(appel_offre.budget) /\ TruthyNum(profil.budget_max)
    THEN IF appel_offre.budget[1] > profil.budget_max[1]
         THEN [r EXCEPT !.score = (@ * 2) \div 10,
                        !.penalites = Append(@, "Budget superieur a votre capacite")]
         ELSE IF TruthyNum(profil.budget_min) /\ appel_offre.budget[1] < profil.budget_min[1]
         THEN [r EXCEPT !.score = (@ * 7) \div 10,
                        !.penalites = Append(@, "Budget inferieur a vos attentes")]
         ELSE [r EXCEPT !.raisons = Append(@, "Budget compatible")]
    ELSE r

\* lines 156-161: the guarantee stage
CautionStage(profil, appel_offre, r) ==
    IF TruthyNum(appel_offre.caution) /\ TruthyNum(profil.caution_max)
    THEN IF appel_offre.caution[1] > profil.caution_max[1]
         THEN [r EXCEPT !.score = @ \div 10,
                        !.penalites = Append(@, "Caution trop elevee")]
         ELSE [r EXCEPT !.raisons = Append(@, "Caution acceptable")]
    ELSE r

\* variant: the product of the penalties is returned as it is
_score_financier_sans_plancher(profil, appel_offre, raisons, penalites) ==
    CautionStage(profil, appel_offre,
                 BudgetStage(profil, appel_offre, Ret(Scale, raisons, penalites)))

_score_financier(profil, appel_offre, raisons, penalites) ==
    LET r == CautionStage(profil, appel_offre,
                 BudgetStage(profil, appel_offre, Ret(Scale, raisons, penalites)))
    IN  [r EXCEPT !.score = Max(@, Scale \div 10)]

\* ------------------------------------------------------------------------
\* 4. time; now is the value of datetime.now() when the line runs
\* ------------------------------------------------------------------------
\* variant: the decay of the preference "court" has no floor
_score_temporel_sans_plancher(profil, appel_offre, raisons, penalites, now) ==
    LET jours_restants == (appel_offre.date_limite - now) \div HoursPerDay
    IN  IF jours_restants < 0
        THEN Ret(0, raisons, Append(penalites, "Appel d'offre expire"))
        ELSE IF profil.delai_preference = "tous"
        THEN Ret((8 * Scale) \div 10, raisons, penalites)
        ELSE IF profil.delai_preference = "court"
        THEN IF jours_restants <= 30
             THEN Ret(Scale, Append(raisons, "Delai court selon vos preferences"), penalites)
             ELSE Ret(Max(0, Scale - ((jours_restants - 30) * Scale) \div 100),
                      raisons, penalites)
        ELSE IF profil.delai_preference = "moyen"
        THEN IF 30 <= jours_restants /\ jours_restants <= 90
             THEN Ret(Scale, Append(raisons, "Delai moyen selon vos preferences"), penalites)
             ELSE Ret((6 * Scale) \div 10, raisons, penalites)
        ELSE IF profil.delai_preference = "long"
        THEN IF jours_restants > 90
             THEN Ret(Scale, Append(raisons, "Delai long selon vos preferences"), penalites)
             ELSE Ret((7 * Scale) \div 10, raisons, penalites)
        ELSE Ret(Scale \div 2, raisons, penalites)

\* variant: the preference "tous" is answered before the deadline is looked at
_score_temporel_tous_avant_expiration(profil, appel_offre, raisons, penalites, now) ==
    LET jours_restants == (appel_offre.date_limite - now) \div HoursPerDay
    IN  IF profil.delai_preference = "tous"
        THEN Ret((8 * Scale) \div 10, raisons, penalites)
        ELSE IF jours_restants < 0
        THEN Ret(0, raisons, Append(penalites, "Appel d'offre expire"))
        ELSE IF profil.delai_preference = "court" /\ jours_restants <= 30
        THEN Ret(Scale, Append(raisons, "Delai court selon vos preferences"), penalites)
        ELSE IF profil.delai_preference = "moyen" /\ 30 <= jours_restants /\ jours_restants <= 90
        THEN Ret(Scale, Append(raisons, "Delai moyen selon vos preferences"), penalites)
        ELSE IF profil.delai_preference = "long" /\ jours_restants > 90
        THEN Ret(Scale, Append(raisons, "Delai long selon vos preferences"), penalites)
        ELSE Ret((6 * Scale) \div 10, raisons, penalites)

_score_temporel(profil, appel_offre, raisons, penalites, now) ==
    LET jours_restants == (appel_offre.date_limite - now) \div HoursPerDay
    IN  IF jours_restants < 0
        THEN Ret(0, raisons, Append(penalites, "Appel d'offre expire"))
        ELSE IF profil.delai_preference = "tous"
        THEN Ret((8 * Scale) \div 10, raisons, penalites)
        ELSE IF profil.delai_preference = "court"
        THEN IF jours_restants <= 30
             THEN Ret(Scale, Append(raisons, "Delai court selon vos preferences"), penalites)
             ELSE Ret(Max((3 * Scale) \div 10,
                          Scale - ((jours_restants - 30) * Scale) \div 100),
                      raisons, penalites)
        ELSE IF profil.delai_preference = "moyen"
        THEN IF 30 <= jours_restants /\ jours_restants <= 90
             THEN Ret(Scale, Append(raisons, "Delai moyen selon vos preferences"), penalites)
             ELSE Ret((6 * Scale) \div 10, raisons, penalites)
        ELSE IF profil.delai_preference = "long"
        THEN IF jours_restants > 90
             THEN Ret(Scale, Append(raisons, "Delai long selon vos preferences"), penalites)
             ELSE Ret((7 * Scale) \div 10, raisons, penalites)
        ELSE Ret(Scale \div 2, raisons, penalites)

\* ------------------------------------------------------------------------
\* 5. keywords
\* ------------------------------------------------------------------------
\* f"{objet} {texte_analyse or ''}".lower()
TexteAnalyse(appel_offre) ==
    Lower(appel_offre.objet \o <<" ">> \o
          (IF TruthyStr(appel_offre.texte_analyse) THEN appel_offre.texte_analyse[1] ELSE << >>))

\* the loop of lines 206-208
mots_cles_trouves(mots_cles_metier, texte_analyse) ==
    SelectSeq(mots_cles_metier, LAMBDA mot_cle : Contains(texte_analyse, Lower(mot_cle)))

\* variant: the ratio of keywords found is not multiplied by 1.5
_score_mots_cles_sans_coefficient(profil, appel_offre, raisons, penalites) ==
    IF profil.mots_cles_metier = << >> THEN Ret(Scale \div 2, raisons, penalites)
    ELSE LET trouves == mots_cles_trouves(profil.mots_cles_metier, TexteAnalyse(appel_offre))
             total == Len(profil.mots_cles_metier)
         IN  IF trouves # << >>
             THEN Ret(Min(Scale, (Len(trouves) * Scale) \div total),
                      Append(raisons, "Mots-cles correspondants"), penalites)
             ELSE Ret((2 * Scale) \div 10, raisons, penalites)

\* variant: the ratio is not capped at 1.0
_score_mots_cles_sans_plafond(profil, appel_offre, raisons, penalites) ==
    IF profil.mots_cles_metier = << >> THEN Ret(Scale \div 2, raisons, penalites)
    ELSE LET trouves == mots_cles_trouves(profil.mots_cles_metier, TexteAnalyse(appel_offre))
             total == Len(profil.mots_cles_metier)
         IN  IF trouves # << >>
             THEN Ret((Len(trouves) * 3 * Scale) \div (2 * total),
                      Append(raisons, "Mots-cles correspondants"), penalites)
             ELSE Ret((2 * Scale) \div 10, raisons, penalites)

_score_mots_cles(profil, appel_offre, raisons, penalites) ==
    IF profil.mots_cles_metier = << >> THEN Ret(Scale \div 2, raisons, penalites)
    ELSE LET trouves == mots_cles_trouves(profil.mots_cles_metier, TexteAnalyse(appel_offre))
             total == Len(profil.mots_cles_metier)
         IN  IF trouves # << >>
             THEN IF total = 0
                  THEN Raise("ZeroDivisionError",
                             Append(raisons, "Mots-cles correspondants"), penalites)
                  ELSE Ret(Min(Scale, (Len(trouves) * 3 * Scale) \div (2 * total)),
                           Append(raisons, "Mots-cles correspondants"), penalites)
             ELSE Ret((2 * Scale) \div 10, raisons, penalites)

\* ------------------------------------------------------------------------
\* 6. classification
\* ------------------------------------------------------------------------
\* variant: only a tender without classification gets the neutral score
_score_classification_sans_neutre(profil, appel_offre, raisons, penalites) ==
    IF ~TruthyStr(appel_offre.classification)
    THEN Ret(Scale \div 2, raisons, penalites)
    ELSE LET classification_lower == Lower(appel_offre.classification[1])
         IN  IF \E i \in 1..Len(profil.classifications_preferees) :
                    LET classif_pref == Lower(profil.classifications_preferees[i])
                    IN  \/ Contains(classification_lower, classif_pref)
                        \/ Contains(classif_pref, classification_lower)
             THEN Ret(Scale, Append(raisons, "Classification correspond a vos preferences"),
                      penalites)
             ELSE Ret((3 * Scale) \div 10, raisons, penalites)

_score_classification(profil, appel_offre, raisons, penalites) ==
    IF profil.classifications_preferees = << >> \/ ~TruthyStr(appel_offre.classification)
    THEN Ret(Scale \div 2, raisons, penalites)
    ELSE LET classification_lower == Lower(appel_offre.classification[1])
         IN  IF \E i \in 1..Len(profil.classifications_preferees) :
                    LET classif_pref == Lower(profil.classifications_preferees[i])
                    IN  \/ Contains(classification_lower, classif_pref)
                        \/ Contains(classif_pref, classification_lower)
             THEN Ret(Scale, Append(raisons, "Classification correspond a vos preferences"),
                      penalites)
             ELSE Ret((3 * Scale) \div 10, raisons, penalites)

\* ------------------------------------------------------------------------
\* exclusions and aggregation
\* ------------------------------------------------------------------------
\* variant: the comparison is case-sensitive
_est_exclu_sensible_casse(profil, appel_offre) ==
    \/ \E i \in 1..Len(profil.secteurs_exclus) :
           Contains(appel_offre.secteur, profil.secteurs_exclus[i])
    \/ \E i \in 1..Len(profil.villes_exclues) :
           Contains(appel_offre.ville, profil.villes_exclues[i])

_est_exclu(profil, appel_offre) ==
    \/ \E i \in 1..Len(profil.secteurs_exclus) :
           Contains(Lower(appel_offre.secteur), Lower(profil.secteurs_exclus[i]))
    \/ \E i \in 1..Len(profil.villes_exclues) :
           Contains(Lower(appel_offre.ville), Lower(profil.villes_exclues[i]))

ExclusionPenalite == "Secteur ou ville exclu par l'utilisateur"

\* sum(scores[critere] * self.poids[critere] for critere in scores)
WeightedSum(scores) ==
      scores.secteur * poids.secteur
    + scores.geographique * poids.geographique
    + scores.financier * poids.financier
    + scores.temporel * poids.temporel
    + scores.mots_cles * poids.mots_cles
    + scores.classification * poids.classification

\* lines 44-64: the six sub-scores in the order they are computed (s1 first),
\* each appending to the lists the previous one left
SousScores(profil, appel_offre, now) ==
    Val({ Val({ Val({ Val({ Val({ Val({
        [secteur |-> s1.score, geographique |-> s2.score,
         financier |-> s3.score, temporel |-> s4.score,
         mots_cles |-> s5.score, classification |-> s6.score,
         raisons |-> s6.raisons, penalites |-> s6.penalites,
         exc |-> IF \A e \in {s1.exc, s2.exc, s3.exc, s4.exc, s5.exc, s6.exc} : e = "none"
                 THEN "none"
                 ELSE Head(SelectSeq(<<s1.exc, s2.exc, s3.exc, s4.exc, s5.exc, s6.exc>>,
                                     LAMBDA e : e # "none"))]
      : s6 \in {_score_classification(profil, appel_offre, s5.raisons, s5.penalites)} })
      : s5 \in {_score_mots_cles(profil, appel_offre, s4.raisons, s4.penalites)} })
      : s4 \in {_score_temporel(profil, appel_offre, s3.raisons, s3.penalites, now)} })
      : s3 \in {_score_financier(profil, appel_offre, s2.raisons, s2.penalites)} })
      : s2 \in {_score_geographique(profil, appel_offre, s1.raisons, s1.penalites)} })
      : s1 \in {_score_secteur(profil, appel_offre, << >>, << >>)} })

\* lines 66-84: the ScoreDetail built from the sub-scores
Detail(scores, exclu, penalites) ==
    [score_total |-> IF exclu THEN 0 ELSE WeightedSum(scores),
     score_secteur |-> scores.secteur,
     score_geographique |-> scores.geographique,
     score_financier |-> scores.financier,
     score_temporel |-> scores.temporel,
     score_mots_cles |-> scores.mots_cles,
     score_classification |-> scores.classification,
     raisons |-> scores.raisons,
     penalites |-> penalites,
     exc |-> scores.exc]

\* variant: the exclusion is recorded before the criteria are scored
calculer_score_exclusion_en_tete(profil, appel_offre, now) ==
    Val({ Detail(scores, exclu,
                 IF exclu THEN <<ExclusionPenalite>> \o scores.penalites
                 ELSE scores.penalites)
        : scores \in {SousScores(profil, appel_offre, now)},
          exclu \in {_est_exclu(profil, appel_offre)} })

\* the ScoreDetail returned, or the exception that escapes
calculer_score_appel_offre(profil, appel_offre, now) ==
    Val({ Detail(scores, exclu,
                 IF exclu THEN Append(scores.penalites, ExclusionPenalite)
                 ELSE scores.penalites)
        : scores \in {SousScores(profil, appel_offre, now)},
          exclu \in {_est_exclu(profil, appel_offre)} })

\* ------------------------------------------------------------------------
\* ranking and categorisation
\* ------------------------------------------------------------------------
\* list.sort(key = score_total, reverse = True): stable, so an element goes
\* after every element whose total is at least its own
\* variant: an element goes before the elements whose total equals its own
RECURSIVE InsertDescAvantEgaux(_, _)
InsertDescAvantEgaux(sorted, x) ==
    IF sorted = << >> THEN <<x>>
    ELSE IF Head(sorted).score_detail.score_total > x.score_detail.score_total
    THEN <<Head(sorted)>> \o InsertDescAvantEgaux(Tail(sorted), x)
    ELSE <<x>> \o sorted

RECURSIVE InsertDesc(_, _)
InsertDesc(sorted, x) ==
    IF sorted = << >> THEN <<x>>
    ELSE IF Head(sorted).score_detail.score_total >= x.score_detail.score_total
    THEN <<Head(sorted)>> \o InsertDesc(Tail(sorted), x)
    ELSE <<x>> \o sorted

RECURSIVE SortDesc(_)
SortDesc(xs) ==
    IF xs = << >> THEN << >>
    ELSE Val({ InsertDesc(sorted, xs[Len(xs)])
             : sorted \in {SortDesc(SubSeq(xs, 1, Len(xs) - 1))} })

\* xs[:n] of Python: a negative n counts from the end
SliceTo(xs, n) ==
    IF n >= 0 THEN SubSeq(xs, 1, Min(n, Len(xs)))
    ELSE SubSeq(xs, 1, Max(0, Len(xs) + n))

\* variant: a total equal to the threshold is not retained
RetenirSiStrictementAuDessus(svc, resultats, appel_offre, score_detail) ==
    IF score_detail.score_total > svc.seuil_recommandation
    THEN Append(resultats, [appel_offre |-> appel_offre, score_detail |-> score_detail])
    ELSE resultats

\* lines 279-283: one turn of the loop, on the list built so far
RetenirSiPertinent(svc, resultats, appel_offre, score_detail) ==
    IF score_detail.score_total >= svc.seuil_recommandation
    THEN Append(resultats, [appel_offre |-> appel_offre, score_detail |-> score_detail])
    ELSE resultats

\* lines 285-288: what the method returns once the loop is over
TrierEtLimiter(resultats, limite) == SliceTo(SortDesc(resultats), limite)

\* variant: the bounds of the tiers are exclusive
categoriser_bornes_exclues(svc, score) ==
    IF score > svc.seuil_haute_pertinence THEN "Tres pertinent"
    ELSE IF score > svc.seuil_recommandation THEN "Pertinent"
    ELSE "Peu pertinent"

\* variant: the tiers use the threshold of a new ScoringService
categoriser_seuil_par_defaut(svc, score) ==
    IF score >= ScoringService.seuil_haute_pertinence THEN "Tres pertinent"
    ELSE IF score >= ScoringService.seuil_recommandation THEN "Pertinent"
    ELSE "Peu pertinent"

categoriser_recommandation(svc, score) ==
    IF score >= svc.seuil_haute_pertinence THEN "Tres pertinent"
    ELSE IF score >= svc.seuil_recommandation THEN "Pertinent"
    ELSE "Peu pertinent"

\* round(x, 3) of a total: the nearest multiple of 0.001
Round3(x) ==
    LET unit == TotalScale \div 1000
    IN  ((2 * x + unit) \div (2 * unit)) * unit

\* ------------------------------------------------------------------------
\* Input values: the strings, profiles and tenders the operations are run on
\* ------------------------------------------------------------------------
W_info == <<"i", "n", "f", "o">>
W_Info == <<"I", "n", "f", "o">>
W_Infos == <<"I", "n", "f", "o", "s">>
W_in == <<"i", "n">>
W_sante == <<"s", "a", "n", "t", "e">>
W_BTP == <<"B", "T", "P">>
W_btp == <<"b", "t", "p">>
W_Rabat == <<"R", "a", "b", "a", "t">>
W_RABAT == <<"R", "A", "B", "A", "T">>
W_sale_sp == <<" ", "S", "a", "l", "e", " ">>
W_Sale == <<"S", "a", "l", "e">>
W_Oujda == <<"O", "u", "j", "d", "a">>
W_web == <<"w", "e", "b">>
W_Reseau == <<"R", "e", "s", "e", "a", "u">>
W_dev_web == <<"D", "e", "v", " ", "W", "e", "b">>
W_web_reseau == <<"w", "e", "b", " ", "r", "e", "s", "e", "a", "u">>
W_audit == <<"a", "u", "d", "i", "t">>
W_reseau == <<"r", "e", "s", "e", "a", "u">>
W_services == <<"s", "e", "r", "v", "i", "c", "e", "s">>
W_Services_IT == <<"S", "e", "r", "v", "i", "c", "e", "s", " ", "I", "T">>
W_travaux == <<"t", "r", "a", "v", "a", "u", "x">>
W_Rabat_sp == <<" ", "R", "a", "b", "a", "t", " ">>
W_bateaux == <<"b", "a", "t", "e", "a", "u", "x">>
W_conseil == <<"c", "o", "n", "s", "e", "i", "l">>
W_Conseil_audit ==
    <<"C", "o", "n", "s", "e", "i", "l", " ", "a", "u", "d", "i", "t">>
W_informatique ==
    <<"i", "n", "f", "o", "r", "m", "a", "t", "i", "q", "u", "e">>
W_Informatique_et_telecommunications ==
    <<"I", "n", "f", "o", "r", "m", "a", "t", "i", "q", "u", "e", " ", "e", "t", " ",
      "t", "é", "l", "é", "c", "o", "m", "m", "u", "n", "i", "c", "a", "t", "i", "o",
      "n", "s">>
W_developpement_web ==
    <<"d", "é", "v", "e", "l", "o", "p", "p", "e", "m", "e", "n", "t", " ", "w", "e",
      "b">>
W_Developpement_web_pour_portail ==
    <<"D", "é", "v", "e", "l", "o", "p", "p", "e", "m", "e", "n", "t", " ", "w", "e",
      "b", " ", "p", "o", "u", "r", " ", "p", "o", "r", "t", "a", "i", "l">>

Rayons == {"local", "regional", "national", "international"}
Delais == {"court", "moyen", "long", "tous"}

SecteursActivite == {<< >>, <<W_info>>, <<W_sante, W_in>>, <<W_bateaux, W_conseil>>}
VillesPreferees == {<< >>, <<W_Rabat>>, <<W_Rabat_sp>>}
Finances ==
    { [budget_min |-> None, budget_max |-> None, caution_max |-> None],
      [budget_min |-> Some(50000), budget_max |-> Some(500000), caution_max |-> Some(50000)],
      [budget_min |-> None, budget_max |-> Some(500000), caution_max |-> None],
      [budget_min |-> Some(50000), budget_max |-> None, caution_max |-> None] }
\* ten keywords, of which the tenders of the catalogue hold none, one or two
MotsClesDix ==
    <<W_Reseau, W_audit, W_btp, W_sante, W_travaux, W_services, W_info, W_conseil,
      W_bateaux, W_Rabat>>
MotsCles == {<< >>, <<W_web, W_Reseau>>, MotsClesDix}
Classifications == {<< >>, <<W_services>>}
Exclusions ==
    { [secteurs_exclus |-> << >>, villes_exclues |-> << >>],
      [secteurs_exclus |-> <<W_btp>>, villes_exclues |-> << >>],
      [secteurs_exclus |-> << >>, villes_exclues |-> <<W_RABAT>>] }

MkProfil(sa, vp, ri, fin, dp, mc, cp, ex, pc) ==
    [secteur_activite |-> sa, villes_preferees |-> vp, rayon_intervention |-> ri,
     budget_min |-> fin.budget_min, budget_max |-> fin.budget_max,
     caution_max |-> fin.caution_max, delai_preference |-> dp,
     mots_cles_metier |-> mc, classifications_preferees |-> cp,
     secteurs_exclus |-> ex.secteurs_exclus, villes_exclues |-> ex.villes_exclues,
     profil_complete |-> pc]

SansExclusion == [secteurs_exclus |-> << >>, villes_exclues |-> << >>]

\* a profile with the defaults of UserProfile, and the example of its schema
ProfilParDefaut ==
    MkProfil(<< >>, << >>, "regional",
             [budget_min |-> None, budget_max |-> None, caution_max |-> None],
             "tous", << >>, << >>, SansExclusion, TRUE)
ProfilExemple ==
    MkProfil(<<W_info>>, <<W_Rabat>>, "regional",
             [budget_min |-> Some(50000), budget_max |-> Some(500000),
              caution_max |-> Some(50000)],
             "moyen", <<W_web, W_Reseau>>, <<W_services>>, SansExclusion, TRUE)

\* the profile and the tender of the end-to-end example: one sector, one
\* preferred city, one keyword, a budget ceiling; a deadline 45 days ahead
ProfilBoutEnBout ==
    MkProfil(<<W_informatique>>, <<W_Rabat>>, "regional",
             [budget_min |-> None, budget_max |-> Some(500000), caution_max |-> None],
             "moyen", <<W_developpement_web>>, << >>, SansExclusion, TRUE)

\* the profiles that differ from p in the preferences of at most one criterion
Variantes(p) ==
    { [p EXCEPT !.secteur_activite = sa] : sa \in SecteursActivite }
      \cup { [p EXCEPT !.villes_preferees = vp, !.rayon_intervention = ri] :
               vp \in VillesPreferees, ri \in Rayons }
      \cup { [p EXCEPT !.budget_min = fin.budget_min, !.budget_max = fin.budget_max,
                       !.caution_max = fin.caution_max] : fin \in Finances }
      \cup { [p EXCEPT !.delai_preference = dp] : dp \in Delais }
      \cup { [p EXCEPT !.mots_cles_metier = mc] : mc \in MotsCles }
      \cup { [p EXCEPT !.classifications_preferees = cp] : cp \in Classifications }

\* each of them with each exclusion list
Profils ==
    { [p EXCEPT !.secteurs_exclus = ex.secteurs_exclus,
                !.villes_exclues = ex.villes_exclues] :
        p \in Variantes(ProfilParDefaut) \cup Variantes(ProfilExemple),
        ex \in Exclusions }
      \cup {ProfilBoutEnBout}

MkAppel(secteur, ville, budget, caution, date_limite, objet, texte, classification) ==
    [numero |-> 0, secteur |-> secteur, ville |-> ville, budget |-> budget,
     caution |-> caution, date_limite |-> date_limite, objet |-> objet,
     texte_analyse |-> texte, classification |-> classification]

Jours(n) == n * HoursPerDay

\* the tender of the end-to-end example; its deadline stays 45 full days ahead
\* of every datetime.now() of a run
AppelBoutEnBout ==
    MkAppel(W_Informatique_et_telecommunications, W_Rabat, Some(300000), None,
            Jours(45) + 4, W_Developpement_web_pour_portail, None, None)

\* the tenders of the catalogue; deadlines are hours after the start of the run
Catalogue ==
    << MkAppel(W_Info, W_Rabat, Some(300000), Some(10000), Jours(45), W_web_reseau,
               None, Some(W_Services_IT)),
       MkAppel(W_Infos, W_sale_sp, Some(600000), Some(90000), 1, W_dev_web,
               Some(W_audit), None),
       MkAppel(W_BTP, W_Oujda, Some(20000), None, Jours(100), W_audit,
               Some(W_reseau), Some(W_travaux)),
       MkAppel(W_Info, W_Oujda, None, Some(0), Jours(31) + 1, W_audit,
               None, Some(<< >>)),
       MkAppel(W_Info, W_Sale, Some(600000), Some(10000), Jours(135), W_dev_web,
               Some(<< >>), Some(W_services)),
       MkAppel(W_Infos, W_Rabat, Some(20000), Some(90000), Jours(90) + 2, W_web_reseau,
               None, None),
       AppelBoutEnBout,
       MkAppel(W_Info, W_Rabat, None, None, Jours(30) + 1, W_audit, None, None),
       MkAppel(W_BTP, W_Oujda, None, None, Jours(91) + 1, W_audit, None, None),
       MkAppel(W_Conseil_audit, W_Oujda, None, None, Jours(45), W_audit, None, None) >>

\* one hour of difference between datetime.now() and datetime.utcnow(), or none
TzOffsets == {0, 1}

\* ------------------------------------------------------------------------
\* State
\* ------------------------------------------------------------------------
VARIABLES
    profil,          \* the UserProfile the operations are called with
    appels_offres,   \* the list of AppelOffre, in stored order
    clock,           \* datetime.utcnow(), in hours
    tz_offset,       \* datetime.now() - datetime.utcnow(), in hours
    service,         \* the fields of the ScoringService instance in use
    appel,           \* the last method call: its arguments, the instant it read
                     \* the clock at, and what it returned
    hash_seed,       \* the seed of str.__hash__ drawn when the process started
    instances,       \* the ScoringService objects built by get_scoring_service
    requetes,        \* the HTTP requests in flight: parameters, locals, position
    db               \* the collections user_profiles and interactions_users

vars == <<profil, appels_offres, clock, tz_offset, service, appel, hash_seed,
                 instances, requetes, db>>

datetime_utcnow == clock
datetime_now == clock + tz_offset

NoCall == [op |-> "none"]

\* AppelOffre number i of the list; numero identifies the stored document
Numbered(contents) == [i \in 1..Len(contents) |-> [contents[i] EXCEPT !.numero = i]]

\* ------------------------------------------------------------------------
\* calculer_score_appel_offre called on one profile and one tender
\* ------------------------------------------------------------------------
InitScore ==
    /\ profil \in Profils
    /\ \E c \in 1..Len(Catalogue) : appels_offres = Numbered(<<Catalogue[c]>>)
    /\ clock = 0
    /\ tz_offset \in TzOffsets
    /\ service = ScoringService
    /\ appel = NoCall
    /\ hash_seed = 0
    /\ instances = << >>
    /\ requetes = << >>
    /\ db = << >>

Tick ==
    /\ clock < MaxClock
    /\ clock' = clock + 1
    /\ UNCHANGED <<profil, appels_offres, tz_offset, service, appel, hash_seed,
                 instances, requetes, db>>

CalculerScore ==
    /\ \E i \in 1..Len(appels_offres) :
           appel' = [op |-> "calculer",
                     profil |-> profil,
                     appel_offre |-> appels_offres[i],
                     now |-> datetime_now,
                     result |-> calculer_score_appel_offre(profil, appels_offres[i],
                                                           datetime_now)]
    /\ UNCHANGED <<profil, appels_offres, clock, tz_offset, service, hash_seed,
                 instances, requetes, db>>

\* documents given to UserProfile(**data): the two named profiles, one with the
\* radius "international", and two whose enumerated fields hold other strings
DonneesProfil ==
    {ProfilParDefaut, ProfilExemple,
     [ProfilExemple EXCEPT !.rayon_intervention = "international"],
     [ProfilParDefaut EXCEPT !.rayon_intervention = "mondial"],
     [ProfilExemple EXCEPT !.delai_preference = "urgent"]}

\* variant: the enumerated fields are plain strings
UserProfile_sans_validation(donnees) ==
    [exc |-> "none", profil |-> donnees]

\* the construction of the model UserProfile: pydantic rejects a value that is
\* not a member of RayonIntervention or of DelaiPreference
UserProfile(donnees) ==
    IF donnees.rayon_intervention \in Rayons /\ donnees.delai_preference \in Delais
    THEN [exc |-> "none", profil |-> donnees]
    ELSE [exc |-> "ValidationError", profil |-> donnees]

\* a profile is built from a document and, if valid, is the one scored next
ConstruireProfil ==
    /\ \E donnees \in DonneesProfil :
           \E r \in {UserProfile(donnees)} :
               /\ appel' = [op |-> "construire", donnees |-> donnees, exc |-> r.exc]
               /\ profil' = IF r.exc = "none" THEN r.profil ELSE profil
    /\ UNCHANGED <<appels_offres, clock, tz_offset, service, hash_seed,
                 instances, requetes, db>>

NextScore == Tick \/ CalculerScore \/ ConstruireProfil

SpecScore == InitScore /\ [][NextScore]_vars

\* ------------------------------------------------------------------------
\* recommander_appels_offres, categoriser_recommandation and the endpoint
\* GET /recommend/appels-offres/{user_id}
\* ------------------------------------------------------------------------
ProfilIncomplet == [ProfilExemple EXCEPT !.profil_complete = FALSE]
ProfilsRank == {ProfilExemple, ProfilParDefaut, ProfilIncomplet}

\* the tenders the lists are made of
CatalogueRank == <<Catalogue[1], Catalogue[2], Catalogue[3], Catalogue[6]>>

\* the lists of at most n distinct tenders of CatalogueRank, in every order
RECURSIVE ListesDe(_)
ListesDe(n) ==
    IF n = 0 THEN {<< >>}
    ELSE LET courtes == ListesDe(n - 1)
         IN  courtes \cup
             { Append(l, CatalogueRank[c]) :
                 <<l, c>> \in { x \in {k \in courtes : Len(k) = n - 1}
                                        \X (1..Len(CatalogueRank)) :
                                \A i \in 1..Len(x[1]) : x[1][i] # CatalogueRank[x[2]] } }

\* values given to seuil_recommandation: 0, the default 0.6, 0.625, 0.9
Seuils ==
    {0, 6 * (TotalScale \div 10), 625 * (TotalScale \div 1000), 9 * (TotalScale \div 10)}
\* values of the query parameter score_min: 0, the default 0.6, 0.7672
ScoreMins == {0, 6 * (TotalScale \div 10), 7672 * (TotalScale \div 10000)}
\* values of the argument limite of a direct call
Limites == (0 - 1)..MaxLimite
\* scores given to categoriser_recommandation: 0.59, 0.6, 0.79, 0.8, 1.0
ScoresCategorie ==
    {59 * (TotalScale \div 100), 6 * (TotalScale \div 10),
     79 * (TotalScale \div 100), 8 * (TotalScale \div 10), TotalScale}

Init ==
    /\ profil \in ProfilsRank
    /\ \E l \in ListesDe(MaxAppels) : appels_offres = Numbered(l)
    /\ clock = 0
    /\ tz_offset \in TzOffsets
    /\ service = ScoringService
    /\ appel = NoCall
    /\ hash_seed = 0
    /\ instances = << >>
    /\ requetes = << >>
    /\ db = << >>

\* a call of recommander_appels_offres is inside its loop
EnCours == appel.op \in {"recommander", "requete"} /\ appel.pc = "boucle"

\* the locals of recommander_appels_offres on entry (line 276)
RankState(svc, p, liste, limite) ==
    [profil |-> p, appels_offres |-> liste, limite |-> limite,
     seuil |-> svc.seuil_recommandation,
     pc |-> IF liste = << >> THEN "fini" ELSE "boucle",
     i |-> 1, calcules |-> << >>, resultats |-> << >>, result |-> << >>]

\* lines 278-288: candidate number i is scored at the instant now; after the
\* last one the list is sorted, cut and returned.  calcules keeps every
\* ScoreDetail computed by the call.
RankStep(r, svc, now) ==
    Val({ Val({ [r EXCEPT !.calcules = Append(@, score_detail),
                          !.resultats = resultats,
                          !.i = @ + 1,
                          !.pc = IF r.i = Len(r.appels_offres) THEN "fini" ELSE "boucle",
                          !.result = IF r.i = Len(r.appels_offres)
                                     THEN TrierEtLimiter(resultats, r.limite)
                                     ELSE << >>]
              : resultats \in {RetenirSiPertinent(svc, r.resultats, r.appels_offres[r.i],
                                                  score_detail)} })
        : score_detail \in
              {calculer_score_appel_offre(r.profil, r.appels_offres[r.i], now)} })

\* a caller sets the threshold of its instance and calls the method
Recommander ==
    /\ ~EnCours
    /\ \E limite \in Limites, seuil \in Seuils :
           /\ service' = [service EXCEPT !.seuil_recommandation = seuil]
           /\ appel' = [op |-> "recommander"]
                         @@ RankState(service', profil, appels_offres, limite)
    /\ UNCHANGED <<profil, appels_offres, clock, tz_offset, hash_seed,
                 instances, requetes, db>>

RecommanderEtape ==
    /\ appel.op = "recommander"
    /\ appel.pc = "boucle"
    /\ appel' = RankStep(appel, service, datetime_now)
    /\ UNCHANGED <<profil, appels_offres, clock, tz_offset, service, hash_seed,
                 instances, requetes, db>>

Categoriser ==
    /\ ~EnCours
    /\ \E score \in ScoresCategorie :
           appel' = [op |-> "categoriser", score |-> score,
                     seuil |-> service.seuil_recommandation,
                     result |-> categoriser_recommandation(service, score)]
    /\ UNCHANGED <<profil, appels_offres, clock, tz_offset, service, hash_seed,
                 instances, requetes, db>>

\* lines 181-196: one entry of "recommendations"
FormaterRecommandation(svc, r) ==
    [numero |-> r.appel_offre.numero,
     score |-> [total |-> Round3(r.score_detail.score_total),
                secteur |-> Round3(r.score_detail.score_secteur * 100),
                geographique |-> Round3(r.score_detail.score_geographique * 100),
                financier |-> Round3(r.score_detail.score_financier * 100),
                temporel |-> Round3(r.score_detail.score_temporel * 100),
                mots_cles |-> Round3(r.score_detail.score_mots_cles * 100),
                classification |-> Round3(r.score_detail.score_classification * 100)],
     raisons |-> r.score_detail.raisons,
     penalites |-> r.score_detail.penalites,
     categorie |-> categoriser_recommandation(svc, r.score_detail.score_total)]

\* lines 179-208: the body of the response
FormaterReponse(svc, recommandations) ==
    [success |-> TRUE,
     recommendations |-> [k \in 1..Len(recommandations) |->
                            FormaterRecommandation(svc, recommandations[k])]]

\* lines 156-160: the tenders whose deadline is not before utcnow()
AppelsActifs(liste, utcnow) == SelectSeq(liste, LAMBDA a : a.date_limite >= utcnow)

\* lines 133-177: the request gets its own ScoringService, reads the profile
\* and the active tenders, sets the threshold and enters the loop
RequeteDebut ==
    /\ ~EnCours
    /\ \E limite \in 1..MaxLimite, score_min \in ScoreMins :
        LET appels_data == AppelsActifs(appels_offres, datetime_utcnow)
            svc == [ScoringService EXCEPT !.seuil_recommandation = score_min]
            requete == [op |-> "requete", score_min |-> score_min]
        IN  IF ~profil.profil_complete
            THEN /\ service' = ScoringService
                 /\ appel' = (requete @@ [reponse |-> [success |-> FALSE,
                                                       recommendations |-> << >>]])
                               @@ [RankState(ScoringService, profil, << >>, limite)
                                     EXCEPT !.pc = "fini"]
            ELSE /\ service' = (IF appels_data = << >> THEN ScoringService ELSE svc)
                 /\ appel' = (requete @@ [reponse |-> [success |-> TRUE,
                                                       recommendations |-> << >>]])
                               @@ RankState(service', profil, appels_data, limite)
    /\ UNCHANGED <<profil, appels_offres, clock, tz_offset, hash_seed,
                 instances, requetes, db>>

\* one turn of the loop inside the request; the last one builds the response
RequeteEtape ==
    /\ appel.op = "requete"
    /\ appel.pc = "boucle"
    /\ \E r \in {RankStep(appel, service, datetime_now)} :
           appel' = IF r.pc = "fini"
                    THEN [r EXCEPT !.reponse = FormaterReponse(service, r.result)]
                    ELSE r
    /\ UNCHANGED <<profil, appels_offres, clock, tz_offset, service, hash_seed,
                 instances, requetes, db>>

Next ==
    \/ Tick
    \/ Recommander
    \/ RecommanderEtape
    \/ Categoriser
    \/ RequeteDebut
    \/ RequeteEtape

Spec == Init /\ [][Next]_vars

\* ------------------------------------------------------------------------
\* the same operations on lists of tenders near their deadline, in which a
\* tender may appear more than once
\* ------------------------------------------------------------------------
\* the first tender of the catalogue with a deadline one hour after the start
\* of the run: it suits ProfilExemple on every criterion but time
AppelBientotEchu == [Catalogue[1] EXCEPT !.date_limite = 1]

CatalogueEcheance == {AppelBientotEchu, Catalogue[1]}

\* the lists of at most n tenders of CatalogueEcheance
ListesEcheance(n) == UNION { [1..k -> CatalogueEcheance] : k \in 0..n }

InitEcheance ==
    /\ profil \in {ProfilExemple, ProfilIncomplet}
    /\ \E l \in ListesEcheance(MaxAppels) : appels_offres = Numbered(l)
    /\ clock = 0
    /\ tz_offset \in TzOffsets
    /\ service = ScoringService
    /\ appel = NoCall
    /\ hash_seed = 0
    /\ instances = << >>
    /\ requetes = << >>
    /\ db = << >>

SpecEcheance == InitEcheance /\ [][Next]_vars

\* ------------------------------------------------------------------------
\* two requests GET /recommend/appels-offres/{user_id} served at the same
\* time.  A request gives the control away at each await; here it may also
\* lose it between any two statements of lines 176-208 and between two turns
\* of the loop of recommander_appels_offres, which only adds interleavings.
\* ------------------------------------------------------------------------
\* the two requests in flight
Requetes == {1, 2}

\* variant: one ScoringService is built once and handed to every request
get_scoring_service_partage(objets) ==
    IF objets = << >>
    THEN [objets |-> <<ScoringService>>, ref |-> 1]
    ELSE [objets |-> objets, ref |-> 1]

\* lines 15-16: each resolution of the dependency builds a new ScoringService;
\* objets are the ScoringService objects alive, ref the one returned
get_scoring_service(objets) ==
    [objets |-> Append(objets, ScoringService), ref |-> Len(objets) + 1]

\* a request that has not been received yet
RequeteLibre == [pc |-> "libre"]

\* the stored lists: none, or the first tender of CatalogueRank alone or
\* followed by another one
ListesConcurrentes ==
    {l \in ListesDe(2) : l # << >> => l[1] = CatalogueRank[1]}

InitConcurrent ==
    /\ profil \in {ProfilExemple, ProfilIncomplet}
    /\ \E l \in ListesConcurrentes : appels_offres = Numbered(l)
    /\ clock = 0
    /\ tz_offset \in TzOffsets
    /\ service = ScoringService
    /\ appel = NoCall
    /\ hash_seed = 0
    /\ instances = << >>
    /\ requetes = [r \in Requetes |-> RequeteLibre]
    /\ db = << >>

\* lines 125-130: the parameters are bound and Depends(get_scoring_service)
\* is resolved
RecommandationRecue ==
    \E r \in Requetes, limite \in 1..MaxLimite, score_min \in ScoreMins :
        /\ requetes[r].pc = "libre"
        /\ \E d \in {get_scoring_service(instances)} :
               /\ instances' = d.objets
               /\ requetes' = [requetes EXCEPT ![r] =
                                  [pc |-> "find_one", limite |-> limite,
                                   score_min |-> score_min,
                                   scoring_service |-> d.ref]]
        /\ UNCHANGED <<profil, appels_offres, clock, tz_offset, service, appel,
                       hash_seed, db>>

\* lines 136-151: await find_one, then the test of profil_complete
RecommandationProfil ==
    \E r \in Requetes :
        /\ requetes[r].pc = "find_one"
        /\ requetes' = [requetes EXCEPT ![r] =
               IF ~profil.profil_complete
               THEN [pc |-> "fini", reponse |-> [success |-> FALSE,
                                                 recommendations |-> << >>]]
                    @@ requetes[r]
               ELSE [pc |-> "to_list", profil |-> profil] @@ requetes[r]]
        /\ UNCHANGED <<profil, appels_offres, clock, tz_offset, service, appel,
                       hash_seed, instances, db>>

\* lines 153-173: await find(...).to_list, then the test of the empty list
RecommandationAppels ==
    \E r \in Requetes :
        /\ requetes[r].pc = "to_list"
        /\ \E appels_data \in {AppelsActifs(appels_offres, datetime_utcnow)} :
               requetes' = [requetes EXCEPT ![r] =
                   IF appels_data = << >>
                   THEN [pc |-> "fini", reponse |-> [success |-> TRUE,
                                                     recommendations |-> << >>]]
                        @@ requetes[r]
                   ELSE [pc |-> "seuil", appels_offres |-> appels_data]
                        @@ requetes[r]]
        /\ UNCHANGED <<profil, appels_offres, clock, tz_offset, service, appel,
                       hash_seed, instances, db>>

\* line 176, and the entry of recommander_appels_offres of line 177
RecommandationSeuil ==
    \E r \in Requetes :
        /\ requetes[r].pc = "seuil"
        /\ instances' = [instances EXCEPT
               ![requetes[r].scoring_service].seuil_recommandation =
                   requetes[r].score_min]
        /\ requetes' = [requetes EXCEPT ![r] =
               RankState(instances'[requetes[r].scoring_service],
                         requetes[r].profil, requetes[r].appels_offres,
                         requetes[r].limite)
               @@ requetes[r]]
        /\ UNCHANGED <<profil, appels_offres, clock, tz_offset, service, appel,
                       hash_seed, db>>

\* one turn of the loop of line 177; after the last one, lines 179-208
RecommandationEtape ==
    \E r \in Requetes :
        /\ requetes[r].pc = "boucle"
        /\ \E svc \in {instances[requetes[r].scoring_service]} :
           \E e \in {RankStep(requetes[r], svc, datetime_now)} :
               requetes' = [requetes EXCEPT ![r] =
                   IF e.pc = "fini"
                   THEN [reponse |-> FormaterReponse(svc, e.result)] @@ e
                   ELSE e]
        /\ UNCHANGED <<profil, appels_offres, clock, tz_offset, service, appel,
                       hash_seed, instances, db>>

NextConcurrent ==
    \/ RecommandationRecue
    \/ RecommandationProfil
    \/ RecommandationAppels
    \/ RecommandationSeuil
    \/ RecommandationEtape

SpecConcurrent == InitConcurrent /\ [][NextConcurrent]_vars

\* ------------------------------------------------------------------------
\* the endpoints that write the profile of one user: POST /recommend/profile,
\* PUT /recommend/profile/{user_id}/preferences,
\* PUT /recommend/profile/{user_id}/refresh-completeness and
\* POST /recommend/interaction.  A request gives the control away at each
\* await of a database call and nowhere else.
\* ------------------------------------------------------------------------
\* the document of user_profiles made of a profile and of the two fields
\* score_engagement and date_modification of UserProfile
Document(p, score_engagement, date_modification) ==
    p @@ [score_engagement |-> score_engagement,
          date_modification |-> date_modification]

\* bodies of POST /recommend/profile: score_engagement is left out and takes
\* its default 0.0
CorpsProfil == {ProfilExemple, ProfilIncomplet}

\* values of InteractionUser.type_interaction, a plain str
TypesInteraction == {"vue", "clic", "favori", "candidature", "ignore", "partage"}

\* bodies of PUT .../preferences: empty, one unknown key, one allowed key, an
\* allowed and an unknown key, an allowed key with a value UserProfile rejects
CorpsPreferences ==
    { << >>,
      [couleur |-> "bleu"],
      [delai_preference |-> "court"],
      [delai_preference |-> "long", couleur |-> "bleu"],
      [rayon_intervention |-> "mondial"] }

\* lines 318-323
champs_autorises ==
    {"secteur_activite", "villes_preferees", "rayon_intervention",
     "budget_min", "budget_max", "caution_max", "delai_preference",
     "mots_cles_metier", "classifications_preferees", "secteurs_exclus",
     "villes_exclues", "notifications_actives", "frequence_notifications"}

\* lines 433-439
poids_actions ==
    [vue |-> 1, clic |-> 2, favori |-> 5, candidature |-> 10, ignore |-> 0 - 1]

\* line 441: poids_actions.get(type_interaction, 0)
points_de(type_interaction) ==
    IF type_interaction \in DOMAIN poids_actions
    THEN poids_actions[type_interaction]
    ELSE 0

\* replace_one({"user_id": ...}, document, upsert): the stored document is
\* replaced; without upsert nothing is written when there is none
replace_one(base, document, upsert) ==
    IF base.user_profiles = << >> /\ ~upsert
    THEN base
    ELSE [base EXCEPT !.user_profiles = <<document>>]

\* update_one({"user_id": ...}, {"$inc": {"score_engagement": points}})
update_one_inc(base, points) ==
    IF base.user_profiles = << >>
    THEN base
    ELSE [base EXCEPT !.user_profiles[1].score_engagement = @ + points]

\* the answer of a handler: the HTTP status and the detail or message
Reponse(status, detail) == [status |-> status, detail |-> detail]

InitProfil ==
    /\ profil \in CorpsProfil
    /\ appels_offres = << >>
    /\ clock = 0
    /\ tz_offset = 0
    /\ service = ScoringService
    /\ appel = NoCall
    /\ hash_seed = 0
    /\ instances = << >>
    /\ requetes = [r \in Requetes |-> RequeteLibre]
    /\ db = [user_profiles |-> <<Document(profil, 0, 0)>>,
             interactions_users |-> << >>]

\* lines 22-32: the body is validated, date_modification is set, and the
\* handler awaits replace_one
create_or_update_profile ==
    \E r \in Requetes, profile \in CorpsProfil :
        /\ requetes[r].pc = "libre"
        /\ requetes' = [requetes EXCEPT ![r] =
               [op |-> "create_or_update_profile", pc |-> "replace_one",
                profile |-> Document(profile, 0, datetime_utcnow)]]
        /\ UNCHANGED <<profil, appels_offres, clock, tz_offset, service, appel,
                       hash_seed, instances, db>>

\* lines 38-52: replace_one with upsert=True, then the answer
CreateReplaceOne ==
    \E r \in Requetes :
        /\ requetes[r].pc = "replace_one"
        /\ requetes[r].op = "create_or_update_profile"
        /\ db' = replace_one(db, requetes[r].profile, TRUE)
        /\ requetes' = [requetes EXCEPT ![r] =
               [pc |-> "fini",
                reponse |-> Reponse(200, "Profil sauvegardé avec succès")]
               @@ requetes[r]]
        /\ UNCHANGED <<profil, appels_offres, clock, tz_offset, service, appel,
                       hash_seed, instances>>

\* lines 217-226: the handler awaits insert_one
record_interaction ==
    \E r \in Requetes, type_interaction \in TypesInteraction :
        /\ requetes[r].pc = "libre"
        /\ requetes' = [requetes EXCEPT ![r] =
               [op |-> "record_interaction", pc |-> "insert_one",
                type_interaction |-> type_interaction]]
        /\ UNCHANGED <<profil, appels_offres, clock, tz_offset, service, appel,
                       hash_seed, instances, db>>

\* lines 226-229 and 430-447: the interaction is stored; with points = 0 the
\* handler answers, otherwise it awaits update_one
RecordInsertOne ==
    \E r \in Requetes :
        /\ requetes[r].pc = "insert_one"
        /\ db' = [db EXCEPT !.interactions_users =
                      Append(@, requetes[r].type_interaction)]
        /\ requetes' = [requetes EXCEPT ![r] =
               IF points_de(requetes[r].type_interaction) # 0
               THEN [requetes[r] EXCEPT !.pc = "update_one"]
               ELSE [pc |-> "fini",
                     reponse |-> Reponse(200, "Interaction enregistrée avec succès")]
                    @@ requetes[r]]
        /\ UNCHANGED <<profil, appels_offres, clock, tz_offset, service, appel,
                       hash_seed, instances>>

\* lines 443-448 and 231-237: $inc of score_engagement, then the answer
update_user_engagement_score ==
    \E r \in Requetes :
        /\ requetes[r].pc = "update_one"
        /\ db' = update_one_inc(db, points_de(requetes[r].type_interaction))
        /\ requetes' = [requetes EXCEPT ![r] =
               [pc |-> "fini",
                reponse |-> Reponse(200, "Interaction enregistrée avec succès")]
               @@ requetes[r]]
        /\ UNCHANGED <<profil, appels_offres, clock, tz_offset, service, appel,
                       hash_seed, instances>>

\* lines 326-327: the allowed items of the body, then date_modification
updates_de(preferences, utcnow) ==
    [date_modification |-> utcnow]
    @@ [k \in DOMAIN preferences \cap champs_autorises |-> preferences[k]]

\* lines 308-333: updates is built and tested, and the handler awaits find_one
update_preferences ==
    \E r \in Requetes, preferences \in CorpsPreferences :
        /\ requetes[r].pc = "libre"
        /\ \E updates \in {updates_de(preferences, datetime_utcnow)} :
               requetes' = [requetes EXCEPT ![r] =
                   IF DOMAIN updates = {}
                   THEN [op |-> "update_preferences", pc |-> "fini",
                         preferences |-> preferences,
                         reponse |-> Reponse(400, "Aucune préférence valide fournie")]
                   ELSE [op |-> "update_preferences", pc |-> "find_one",
                         preferences |-> preferences, updates |-> updates]]
        /\ UNCHANGED <<profil, appels_offres, clock, tz_offset, service, appel,
                       hash_seed, instances, db>>

\* lines 333-347: the document read is updated and validated; the handler
\* answers 404 or 500, or awaits replace_one
PreferencesFindOne ==
    \E r \in Requetes :
        /\ requetes[r].pc = "find_one"
        /\ requetes[r].op = "update_preferences"
        /\ requetes' = [requetes EXCEPT ![r] =
               IF db.user_profiles = << >>
               THEN [pc |-> "fini",
                     reponse |-> Reponse(404, "Profil utilisateur non trouvé")]
                    @@ requetes[r]
               ELSE LET profile_data == requetes[r].updates @@ db.user_profiles[1]
                        construit == UserProfile(profile_data)
                    IN  IF construit.exc # "none"
                        THEN [pc |-> "fini",
                              reponse |-> Reponse(500,
                                  "Erreur lors de la mise à jour des préférences")]
                             @@ requetes[r]
                        ELSE [pc |-> "replace_one", profile |-> construit.profil]
                             @@ requetes[r]]
        /\ UNCHANGED <<profil, appels_offres, clock, tz_offset, service, appel,
                       hash_seed, instances, db>>

\* lines 347-361: replace_one without upsert, then the answer
PreferencesReplaceOne ==
    \E r \in Requetes :
        /\ requetes[r].pc = "replace_one"
        /\ requetes[r].op = "update_preferences"
        /\ db' = replace_one(db, requetes[r].profile, FALSE)
        /\ requetes' = [requetes EXCEPT ![r] =
               [pc |-> "fini",
                reponse |-> Reponse(200, "Préférences mises à jour avec succès")]
               @@ requetes[r]]
        /\ UNCHANGED <<profil, appels_offres, clock, tz_offset, service, appel,
                       hash_seed, instances>>

\* lines 84-91: the handler awaits find_one
refresh_profile_completeness ==
    \E r \in Requetes :
        /\ requetes[r].pc = "libre"
        /\ requetes' = [requetes EXCEPT ![r] =
               [op |-> "refresh_profile_completeness", pc |-> "find_one"]]
        /\ UNCHANGED <<profil, appels_offres, clock, tz_offset, service, appel,
                       hash_seed, instances, db>>

\* lines 91-103: 404, or the document read is validated and the handler
\* awaits replace_one
RefreshFindOne ==
    \E r \in Requetes :
        /\ requetes[r].pc = "find_one"
        /\ requetes[r].op = "refresh_profile_completeness"
        /\ requetes' = [requetes EXCEPT ![r] =
               IF db.user_profiles = << >>
               THEN [pc |-> "fini",
                     reponse |-> Reponse(404, "Profil utilisateur non trouvé")]
                    @@ requetes[r]
               ELSE LET construit == UserProfile(db.user_profiles[1])
                    IN  IF construit.exc # "none"
                        THEN [pc |-> "fini",
                              reponse |-> Reponse(500,
                                  "Erreur lors du recalcul de complétude")]
                             @@ requetes[r]
                        ELSE [pc |-> "replace_one", profile |-> construit.profil]
                             @@ requetes[r]]
        /\ UNCHANGED <<profil, appels_offres, clock, tz_offset, service, appel,
                       hash_seed, instances, db>>

\* lines 103-116: replace_one without upsert, then the answer
RefreshReplaceOne ==
    \E r \in Requetes :
        /\ requetes[r].pc = "replace_one"
        /\ requetes[r].op = "refresh_profile_completeness"
        /\ db' = replace_one(db, requetes[r].profile, FALSE)
        /\ requetes' = [requetes EXCEPT ![r] =
               [pc |-> "fini",
                reponse |-> Reponse(200, "Complétude du profil recalculée")]
               @@ requetes[r]]
        /\ UNCHANGED <<profil, appels_offres, clock, tz_offset, service, appel,
                       hash_seed, instances>>

NextProfil ==
    \/ Tick
    \/ create_or_update_profile
    \/ CreateReplaceOne
    \/ record_interaction
    \/ RecordInsertOne
    \/ update_user_engagement_score
    \/ update_preferences
    \/ PreferencesFindOne
    \/ PreferencesReplaceOne
    \/ refresh_profile_completeness
    \/ RefreshFindOne
    \/ RefreshReplaceOne

SpecProfil == InitProfil /\ [][NextProfil]_vars

\* ------------------------------------------------------------------------
\* KeywordExtractor: the tables of __init__, in the order of the source
\* ------------------------------------------------------------------------
\* self.keywords_by_sector, a dict: its items in insertion order
keywords_by_sector ==
    <<
      [key |-> <<"i", "n", "f", "o", "r", "m", "a", "t", "i", "q", "u", "e">>,
       keywords |-> <<
          <<"d", "é", "v", "e", "l", "o", "p", "p", "e", "m", "e", "n", "t", " ", "w", "e",
            "b">>,
          <<"a", "p", "p", "l", "i", "c", "a", "t", "i", "o", "n", " ", "m", "o", "b", "i",
            "l", "e">>,
          <<"b", "a", "s", "e", " ", "d", "e", " ", "d", "o", "n", "n", "é", "e", "s">>,
          <<"c", "y", "b", "e", "r", "s", "é", "c", "u", "r", "i", "t", "é">>,
          <<"i", "n", "f", "r", "a", "s", "t", "r", "u", "c", "t", "u", "r", "e", " ", "r",
            "é", "s", "e", "a", "u">>,
          <<"c", "l", "o", "u", "d", " ", "c", "o", "m", "p", "u", "t", "i", "n", "g">>,
          <<"i", "n", "t", "e", "l", "l", "i", "g", "e", "n", "c", "e", " ", "a", "r", "t",
            "i", "f", "i", "c", "i", "e", "l", "l", "e">>,
          <<"b", "l", "o", "c", "k", "c", "h", "a", "i", "n">>,
          <<"E", "R", "P">>,
          <<"C", "R", "M">>,
          <<"s", "y", "s", "t", "è", "m", "e", " ", "d", "'", "i", "n", "f", "o", "r", "m",
            "a", "t", "i", "o", "n">>,
          <<"m", "a", "i", "n", "t", "e", "n", "a", "n", "c", "e", " ", "i", "n", "f", "o",
            "r", "m", "a", "t", "i", "q", "u", "e">>,
          <<"f", "o", "r", "m", "a", "t", "i", "o", "n", " ", "i", "n", "f", "o", "r", "m",
            "a", "t", "i", "q", "u", "e">>,
          <<"a", "u", "d", "i", "t", " ", "i", "n", "f", "o", "r", "m", "a", "t", "i", "q",
            "u", "e">>,
          <<"h", "é", "b", "e", "r", "g", "e", "m", "e", "n", "t", " ", "w", "e", "b">>,
          <<"l", "o", "g", "i", "c", "i", "e", "l", " ", "d", "e", " ", "g", "e", "s", "t",
            "i", "o", "n">>,
          <<"e", "-", "c", "o", "m", "m", "e", "r", "c", "e">>,
          <<"d", "i", "g", "i", "t", "a", "l", "i", "s", "a", "t", "i", "o", "n">>,
          <<"t", "r", "a", "n", "s", "f", "o", "r", "m", "a", "t", "i", "o", "n", " ", "d",
            "i", "g", "i", "t", "a", "l", "e">> >>],
      [key |-> <<"b", "â", "t", "i", "m", "e", "n", "t">>,
       keywords |-> <<
          <<"c", "o", "n", "s", "t", "r", "u", "c", "t", "i", "o", "n">>,
          <<"r", "é", "n", "o", "v", "a", "t", "i", "o", "n">>,
          <<"g", "é", "n", "i", "e", " ", "c", "i", "v", "i", "l">>,
          <<"a", "r", "c", "h", "i", "t", "e", "c", "t", "u", "r", "e">>,
          <<"m", "a", "ç", "o", "n", "n", "e", "r", "i", "e">>,
          <<"p", "l", "o", "m", "b", "e", "r", "i", "e">>,
          <<"é", "l", "e", "c", "t", "r", "i", "c", "i", "t", "é">>,
          <<"c", "l", "i", "m", "a", "t", "i", "s", "a", "t", "i", "o", "n">>,
          <<"i", "s", "o", "l", "a", "t", "i", "o", "n", " ", "t", "h", "e", "r", "m", "i",
            "q", "u", "e">>,
          <<"é", "t", "a", "n", "c", "h", "é", "i", "t", "é">>,
          <<"c", "a", "r", "r", "e", "l", "a", "g", "e">>,
          <<"p", "e", "i", "n", "t", "u", "r", "e">>,
          <<"m", "e", "n", "u", "i", "s", "e", "r", "i", "e">>,
          <<"c", "h", "a", "r", "p", "e", "n", "t", "e">>,
          <<"t", "e", "r", "r", "a", "s", "s", "e", "m", "e", "n", "t">>,
          <<"a", "s", "s", "a", "i", "n", "i", "s", "s", "e", "m", "e", "n", "t">>,
          <<"v", "o", "i", "r", "i", "e">>,
          <<"b", "é", "t", "o", "n", " ", "a", "r", "m", "é">>,
          <<"i", "n", "f", "r", "a", "s", "t", "r", "u", "c", "t", "u", "r", "e">> >>],
      [key |-> <<"t", "r", "a", "n", "s", "p", "o", "r", "t">>,
       keywords |-> <<
          <<"t", "r", "a", "n", "s", "p", "o", "r", "t", " ", "r", "o", "u", "t", "i", "e",
            "r">>,
          <<"l", "o", "g", "i", "s", "t", "i", "q", "u", "e">>,
          <<"l", "i", "v", "r", "a", "i", "s", "o", "n">>,
          <<"d", "é", "m", "é", "n", "a", "g", "e", "m", "e", "n", "t">>,
          <<"t", "r", "a", "n", "s", "p", "o", "r", "t", " ", "d", "e", " ", "m", "a", "r",
            "c", "h", "a", "n", "d", "i", "s", "e", "s">>,
          <<"t", "r", "a", "n", "s", "p", "o", "r", "t", " ", "d", "e", " ", "p", "e", "r",
            "s", "o", "n", "n", "e", "s">>,
          <<"a", "f", "f", "r", "è", "t", "e", "m", "e", "n", "t">>,
          <<"e", "n", "t", "r", "e", "p", "o", "s", "a", "g", "e">>,
          <<"s", "u", "p", "p", "l", "y", " ", "c", "h", "a", "i", "n">>,
          <<"d", "o", "u", "a", "n", "e">>,
          <<"t", "r", "a", "n", "s", "i", "t">>,
          <<"f", "r", "e", "t">>,
          <<"t", "r", "a", "n", "s", "p", "o", "r", "t", " ", "i", "n", "t", "e", "r", "n",
            "a", "t", "i", "o", "n", "a", "l">>,
          <<"m", "e", "s", "s", "a", "g", "e", "r", "i", "e">>,
          <<"d", "i", "s", "t", "r", "i", "b", "u", "t", "i", "o", "n">> >>],
      [key |-> <<"s", "a", "n", "t", "é">>,
       keywords |-> <<
          <<"é", "q", "u", "i", "p", "e", "m", "e", "n", "t", " ", "m", "é", "d", "i", "c",
            "a", "l">>,
          <<"f", "o", "u", "r", "n", "i", "t", "u", "r", "e", "s", " ", "m", "é", "d", "i",
            "c", "a", "l", "e", "s">>,
          <<"i", "m", "a", "g", "e", "r", "i", "e", " ", "m", "é", "d", "i", "c", "a", "l",
            "e">>,
          <<"l", "a", "b", "o", "r", "a", "t", "o", "i", "r", "e">>,
          <<"p", "h", "a", "r", "m", "a", "c", "i", "e">>,
          <<"d", "i", "s", "p", "o", "s", "i", "t", "i", "f", "s", " ", "m", "é", "d", "i",
            "c", "a", "u", "x">>,
          <<"s", "t", "é", "r", "i", "l", "i", "s", "a", "t", "i", "o", "n">>,
          <<"a", "m", "b", "u", "l", "a", "n", "c", "e">>,
          <<"t", "é", "l", "é", "m", "é", "d", "e", "c", "i", "n", "e">>,
          <<"d", "o", "s", "s", "i", "e", "r", " ", "m", "é", "d", "i", "c", "a", "l", " ",
            "é", "l", "e", "c", "t", "r", "o", "n", "i", "q", "u", "e">>,
          <<"m", "a", "i", "n", "t", "e", "n", "a", "n", "c", "e", " ", "m", "é", "d", "i",
            "c", "a", "l", "e">>,
          <<"f", "o", "r", "m", "a", "t", "i", "o", "n", " ", "m", "é", "d", "i", "c", "a",
            "l", "e">>,
          <<"h", "y", "g", "i", "è", "n", "e", " ", "h", "o", "s", "p", "i", "t", "a", "l",
            "i", "è", "r", "e">> >>],
      [key |-> <<"é", "d", "u", "c", "a", "t", "i", "o", "n">>,
       keywords |-> <<
          <<"f", "o", "r", "m", "a", "t", "i", "o", "n", " ", "p", "r", "o", "f", "e", "s",
            "s", "i", "o", "n", "n", "e", "l", "l", "e">>,
          <<"e", "-", "l", "e", "a", "r", "n", "i", "n", "g">>,
          <<"é", "q", "u", "i", "p", "e", "m", "e", "n", "t", " ", "s", "c", "o", "l", "a",
            "i", "r", "e">>,
          <<"m", "o", "b", "i", "l", "i", "e", "r", " ", "s", "c", "o", "l", "a", "i", "r",
            "e">>,
          <<"f", "o", "u", "r", "n", "i", "t", "u", "r", "e", "s", " ", "s", "c", "o", "l",
            "a", "i", "r", "e", "s">>,
          <<"l", "a", "b", "o", "r", "a", "t", "o", "i", "r", "e", " ", "p", "é", "d", "a",
            "g", "o", "g", "i", "q", "u", "e">>,
          <<"b", "i", "b", "l", "i", "o", "t", "h", "è", "q", "u", "e">>,
          <<"c", "a", "n", "t", "i", "n", "e", " ", "s", "c", "o", "l", "a", "i", "r", "e">>,
          <<"t", "r", "a", "n", "s", "p", "o", "r", "t", " ", "s", "c", "o", "l", "a", "i",
            "r", "e">>,
          <<"c", "o", "u", "r", "s", " ", "p", "a", "r", "t", "i", "c", "u", "l", "i", "e",
            "r", "s">>,
          <<"c", "e", "r", "t", "i", "f", "i", "c", "a", "t", "i", "o", "n">>,
          <<"f", "o", "r", "m", "a", "t", "i", "o", "n", " ", "c", "o", "n", "t", "i", "n",
            "u", "e">> >>],
      [key |-> <<"a", "g", "r", "i", "c", "u", "l", "t", "u", "r", "e">>,
       keywords |-> <<
          <<"m", "a", "c", "h", "i", "n", "i", "s", "m", "e", " ", "a", "g", "r", "i", "c",
            "o", "l", "e">>,
          <<"i", "r", "r", "i", "g", "a", "t", "i", "o", "n">>,
          <<"s", "e", "m", "e", "n", "c", "e", "s">>,
          <<"e", "n", "g", "r", "a", "i", "s">>,
          <<"p", "e", "s", "t", "i", "c", "i", "d", "e", "s">>,
          <<"é", "l", "e", "v", "a", "g", "e">>,
          <<"a", "r", "b", "o", "r", "i", "c", "u", "l", "t", "u", "r", "e">>,
          <<"m", "a", "r", "a", "î", "c", "h", "a", "g", "e">>,
          <<"c", "é", "r", "é", "a", "l", "i", "c", "u", "l", "t", "u", "r", "e">>,
          <<"t", "r", "a", "n", "s", "f", "o", "r", "m", "a", "t", "i", "o", "n", " ", "a",
            "g", "r", "o", "a", "l", "i", "m", "e", "n", "t", "a", "i", "r", "e">>,
          <<"c", "e", "r", "t", "i", "f", "i", "c", "a", "t", "i", "o", "n", " ", "b", "i",
            "o">>,
          <<"c", "o", "n", "s", "e", "i", "l", " ", "a", "g", "r", "i", "c", "o", "l", "e">>,
          <<"v", "é", "t", "é", "r", "i", "n", "a", "i", "r", "e">>,
          <<"é", "q", "u", "i", "p", "e", "m", "e", "n", "t", " ", "a", "g", "r", "i", "c",
            "o", "l", "e">> >>],
      [key |-> <<"é", "n", "e", "r", "g", "i", "e">>,
       keywords |-> <<
          <<"é", "n", "e", "r", "g", "i", "e", " ", "s", "o", "l", "a", "i", "r", "e">>,
          <<"é", "n", "e", "r", "g", "i", "e", " ", "é", "o", "l", "i", "e", "n", "n", "e">>,
          <<"é", "l", "e", "c", "t", "r", "i", "c", "i", "t", "é">>,
          <<"g", "a", "z", " ", "n", "a", "t", "u", "r", "e", "l">>,
          <<"p", "é", "t", "r", "o", "l", "e">>,
          <<"e", "f", "f", "i", "c", "a", "c", "i", "t", "é", " ", "é", "n", "e", "r", "g",
            "é", "t", "i", "q", "u", "e">>,
          <<"a", "u", "d", "i", "t", " ", "é", "n", "e", "r", "g", "é", "t", "i", "q", "u",
            "e">>,
          <<"i", "n", "s", "t", "a", "l", "l", "a", "t", "i", "o", "n", " ", "é", "l", "e",
            "c", "t", "r", "i", "q", "u", "e">>,
          <<"m", "a", "i", "n", "t", "e", "n", "a", "n", "c", "e", " ", "é", "n", "e", "r",
            "g", "é", "t", "i", "q", "u", "e">>,
          <<"s", "m", "a", "r", "t", " ", "g", "r", "i", "d">>,
          <<"b", "i", "o", "m", "a", "s", "s", "e">>,
          <<"g", "é", "o", "t", "h", "e", "r", "m", "i", "e">>,
          <<"h", "y", "d", "r", "o", "g", "è", "n", "e", " ", "v", "e", "r", "t">> >>],
      [key |-> <<"t", "o", "u", "r", "i", "s", "m", "e">>,
       keywords |-> <<
          <<"h", "ô", "t", "e", "l", "l", "e", "r", "i", "e">>,
          <<"r", "e", "s", "t", "a", "u", "r", "a", "t", "i", "o", "n">>,
          <<"a", "g", "e", "n", "c", "e", " ", "d", "e", " ", "v", "o", "y", "a", "g", "e">>,
          <<"g", "u", "i", "d", "e", " ", "t", "o", "u", "r", "i", "s", "t", "i", "q", "u",
            "e">>,
          <<"t", "r", "a", "n", "s", "p", "o", "r", "t", " ", "t", "o", "u", "r", "i", "s",
            "t", "i", "q", "u", "e">>,
          <<"a", "n", "i", "m", "a", "t", "i", "o", "n">>,
          <<"é", "v", "é", "n", "e", "m", "e", "n", "t", "i", "e", "l">>,
          <<"t", "r", "a", "i", "t", "e", "u", "r">>,
          <<"r", "é", "c", "e", "p", "t", "i", "f">>,
          <<"é", "c", "o", "t", "o", "u", "r", "i", "s", "m", "e">>,
          <<"t", "o", "u", "r", "i", "s", "m", "e", " ", "c", "u", "l", "t", "u", "r", "e",
            "l">>,
          <<"h", "é", "b", "e", "r", "g", "e", "m", "e", "n", "t">> >>],
      [key |-> <<"i", "n", "d", "u", "s", "t", "r", "i", "e">>,
       keywords |-> <<
          <<"p", "r", "o", "d", "u", "c", "t", "i", "o", "n", " ", "i", "n", "d", "u", "s",
            "t", "r", "i", "e", "l", "l", "e">>,
          <<"m", "a", "i", "n", "t", "e", "n", "a", "n", "c", "e", " ", "i", "n", "d", "u",
            "s", "t", "r", "i", "e", "l", "l", "e">>,
          <<"c", "o", "n", "t", "r", "ô", "l", "e", " ", "q", "u", "a", "l", "i", "t", "é">>,
          <<"a", "u", "t", "o", "m", "a", "t", "i", "o", "n">>,
          <<"r", "o", "b", "o", "t", "i", "q", "u", "e">>,
          <<"m", "é", "c", "a", "n", "i", "q", "u", "e", " ", "d", "e", " ", "p", "r", "é",
            "c", "i", "s", "i", "o", "n">>,
          <<"u", "s", "i", "n", "a", "g", "e">>,
          <<"s", "o", "u", "d", "u", "r", "e">>,
          <<"a", "s", "s", "e", "m", "b", "l", "a", "g", "e">>,
          <<"p", "a", "c", "k", "a", "g", "i", "n", "g">>,
          <<"l", "o", "g", "i", "s", "t", "i", "q", "u", "e", " ", "i", "n", "d", "u", "s",
            "t", "r", "i", "e", "l", "l", "e">>,
          <<"s", "é", "c", "u", "r", "i", "t", "é", " ", "i", "n", "d", "u", "s", "t", "r",
            "i", "e", "l", "l", "e">>,
          <<"e", "n", "v", "i", "r", "o", "n", "n", "e", "m", "e", "n", "t", " ", "i", "n",
            "d", "u", "s", "t", "r", "i", "e", "l">> >>],
      [key |-> <<"f", "i", "n", "a", "n", "c", "e">>,
       keywords |-> <<
          <<"c", "o", "m", "p", "t", "a", "b", "i", "l", "i", "t", "é">>,
          <<"a", "u", "d", "i", "t", " ", "f", "i", "n", "a", "n", "c", "i", "e", "r">>,
          <<"c", "o", "n", "s", "e", "i", "l", " ", "f", "i", "s", "c", "a", "l">>,
          <<"b", "a", "n", "q", "u", "e">>,
          <<"a", "s", "s", "u", "r", "a", "n", "c", "e">>,
          <<"c", "r", "é", "d", "i", "t">>,
          <<"i", "n", "v", "e", "s", "t", "i", "s", "s", "e", "m", "e", "n", "t">>,
          <<"g", "e", "s", "t", "i", "o", "n", " ", "d", "e", " ", "p", "a", "t", "r", "i",
            "m", "o", "i", "n", "e">>,
          <<"e", "x", "p", "e", "r", "t", "i", "s", "e", " ", "c", "o", "m", "p", "t", "a",
            "b", "l", "e">>,
          <<"c", "o", "m", "m", "i", "s", "s", "a", "r", "i", "a", "t", " ", "a", "u", "x",
            " ", "c", "o", "m", "p", "t", "e", "s">>,
          <<"f", "i", "n", "a", "n", "c", "e", "m", "e", "n", "t">>,
          <<"m", "i", "c", "r", "o", "f", "i", "n", "a", "n", "c", "e">>,
          <<"t", "r", "é", "s", "o", "r", "e", "r", "i", "e">> >>],
      [key |-> <<"c", "o", "m", "m", "u", "n", "i", "c", "a", "t", "i", "o", "n">>,
       keywords |-> <<
          <<"m", "a", "r", "k", "e", "t", "i", "n", "g", " ", "d", "i", "g", "i", "t", "a",
            "l">>,
          <<"p", "u", "b", "l", "i", "c", "i", "t", "é">>,
          <<"c", "o", "m", "m", "u", "n", "i", "c", "a", "t", "i", "o", "n", " ", "d", "i",
            "g", "i", "t", "a", "l", "e">>,
          <<"r", "é", "s", "e", "a", "u", "x", " ", "s", "o", "c", "i", "a", "u", "x">>,
          <<"c", "r", "é", "a", "t", "i", "o", "n", " ", "g", "r", "a", "p", "h", "i", "q",
            "u", "e">>,
          <<"i", "m", "p", "r", "e", "s", "s", "i", "o", "n">>,
          <<"é", "v", "é", "n", "e", "m", "e", "n", "t", "i", "e", "l">>,
          <<"r", "e", "l", "a", "t", "i", "o", "n", "s", " ", "p", "r", "e", "s", "s", "e">>,
          <<"s", "t", "r", "a", "t", "é", "g", "i", "e", " ", "d", "e", " ", "c", "o", "m",
            "m", "u", "n", "i", "c", "a", "t", "i", "o", "n">>,
          <<"b", "r", "a", "n", "d", " ", "c", "o", "n", "t", "e", "n", "t">>,
          <<"w", "e", "b", " ", "m", "a", "r", "k", "e", "t", "i", "n", "g">>,
          <<"r", "é", "f", "é", "r", "e", "n", "c", "e", "m", "e", "n", "t", " ", "S", "E",
            "O">>,
          <<"c", "o", "m", "m", "u", "n", "i", "t", "y", " ", "m", "a", "n", "a", "g", "e",
            "m", "e", "n", "t">> >>],
      [key |-> <<"e", "n", "v", "i", "r", "o", "n", "n", "e", "m", "e", "n", "t">>,
       keywords |-> <<
          <<"t", "r", "a", "i", "t", "e", "m", "e", "n", "t", " ", "d", "e", "s", " ", "e",
            "a", "u", "x">>,
          <<"g", "e", "s", "t", "i", "o", "n", " ", "d", "e", "s", " ", "d", "é", "c", "h",
            "e", "t", "s">>,
          <<"r", "e", "c", "y", "c", "l", "a", "g", "e">>,
          <<"d", "é", "p", "o", "l", "l", "u", "t", "i", "o", "n">>,
          <<"é", "t", "u", "d", "e", " ", "d", "'", "i", "m", "p", "a", "c", "t">>,
          <<"é", "n", "e", "r", "g", "i", "e", "s", " ", "r", "e", "n", "o", "u", "v", "e",
            "l", "a", "b", "l", "e", "s">>,
          <<"d", "é", "v", "e", "l", "o", "p", "p", "e", "m", "e", "n", "t", " ", "d", "u",
            "r", "a", "b", "l", "e">>,
          <<"I", "S", "O", " ", "1", "4", "0", "0", "1">>,
          <<"é", "c", "o", "n", "o", "m", "i", "e", " ", "c", "i", "r", "c", "u", "l", "a",
            "i", "r", "e">>,
          <<"b", "i", "o", "d", "i", "v", "e", "r", "s", "i", "t", "é">>,
          <<"c", "h", "a", "n", "g", "e", "m", "e", "n", "t", " ", "c", "l", "i", "m", "a",
            "t", "i", "q", "u", "e">> >>],
      [key |-> <<"s", "é", "c", "u", "r", "i", "t", "é">>,
       keywords |-> <<
          <<"s", "é", "c", "u", "r", "i", "t", "é", " ", "p", "r", "i", "v", "é", "e">>,
          <<"s", "u", "r", "v", "e", "i", "l", "l", "a", "n", "c", "e">>,
          <<"g", "a", "r", "d", "i", "e", "n", "n", "a", "g", "e">>,
          <<"s", "y", "s", "t", "è", "m", "e", " ", "d", "'", "a", "l", "a", "r", "m", "e">>,
          <<"v", "i", "d", "é", "o", "s", "u", "r", "v", "e", "i", "l", "l", "a", "n", "c",
            "e">>,
          <<"c", "o", "n", "t", "r", "ô", "l", "e", " ", "d", "'", "a", "c", "c", "è", "s">>,
          <<"s", "é", "c", "u", "r", "i", "t", "é", " ", "i", "n", "c", "e", "n", "d", "i",
            "e">>,
          <<"s", "é", "c", "u", "r", "i", "t", "é", " ", "i", "n", "f", "o", "r", "m", "a",
            "t", "i", "q", "u", "e">>,
          <<"a", "u", "d", "i", "t", " ", "s", "é", "c", "u", "r", "i", "t", "é">>,
          <<"f", "o", "r", "m", "a", "t", "i", "o", "n", " ", "s", "é", "c", "u", "r", "i",
            "t", "é">>,
          <<"t", "r", "a", "n", "s", "p", "o", "r", "t", " ", "d", "e", " ", "f", "o", "n",
            "d", "s">>,
          <<"p", "r", "o", "t", "e", "c", "t", "i", "o", "n", " ", "r", "a", "p", "p", "r",
            "o", "c", "h", "é", "e">> >>],
      [key |-> <<"t", "e", "x", "t", "i", "l", "e">>,
       keywords |-> <<
          <<"c", "o", "n", "f", "e", "c", "t", "i", "o", "n">>,
          <<"b", "r", "o", "d", "e", "r", "i", "e">>,
          <<"i", "m", "p", "r", "e", "s", "s", "i", "o", "n", " ", "t", "e", "x", "t", "i",
            "l", "e">>,
          <<"m", "a", "r", "o", "q", "u", "i", "n", "e", "r", "i", "e">>,
          <<"c", "h", "a", "u", "s", "s", "u", "r", "e">>,
          <<"m", "o", "d", "e">>,
          <<"d", "e", "s", "i", "g", "n", " ", "t", "e", "x", "t", "i", "l", "e">>,
          <<"t", "e", "i", "n", "t", "u", "r", "e">>,
          <<"t", "i", "s", "s", "a", "g", "e">>,
          <<"t", "r", "i", "c", "o", "t", "a", "g", "e">>,
          <<"a", "c", "c", "e", "s", "s", "o", "i", "r", "e", "s">>,
          <<"p", "r", "ê", "t", "-", "à", "-", "p", "o", "r", "t", "e", "r">>,
          <<"e", "x", "p", "o", "r", "t", " ", "t", "e", "x", "t", "i", "l", "e">> >>],
      [key |-> <<"c", "o", "n", "s", "e", "i", "l">>,
       keywords |-> <<
          <<"c", "o", "n", "s", "e", "i", "l", " ", "e", "n", " ", "m", "a", "n", "a", "g",
            "e", "m", "e", "n", "t">>,
          <<"f", "o", "r", "m", "a", "t", "i", "o", "n", " ", "p", "r", "o", "f", "e", "s",
            "s", "i", "o", "n", "n", "e", "l", "l", "e">>,
          <<"a", "u", "d", "i", "t", " ", "o", "r", "g", "a", "n", "i", "s", "a", "t", "i",
            "o", "n", "n", "e", "l">>,
          <<"a", "c", "c", "o", "m", "p", "a", "g", "n", "e", "m", "e", "n", "t">>,
          <<"c", "o", "a", "c", "h", "i", "n", "g">>,
          <<"s", "t", "r", "a", "t", "é", "g", "i", "e", " ", "d", "'", "e", "n", "t", "r",
            "e", "p", "r", "i", "s", "e">>,
          <<"r", "e", "s", "s", "o", "u", "r", "c", "e", "s", " ", "h", "u", "m", "a", "i",
            "n", "e", "s">>,
          <<"o", "p", "t", "i", "m", "i", "s", "a", "t", "i", "o", "n", " ", "d", "e", "s",
            " ", "p", "r", "o", "c", "e", "s", "s", "u", "s">>,
          <<"c", "o", "n", "d", "u", "i", "t", "e", " ", "d", "u", " ", "c", "h", "a", "n",
            "g", "e", "m", "e", "n", "t">>,
          <<"c", "e", "r", "t", "i", "f", "i", "c", "a", "t", "i", "o", "n">>,
          <<"n", "o", "r", "m", "a", "l", "i", "s", "a", "t", "i", "o", "n">>,
          <<"é", "v", "a", "l", "u", "a", "t", "i", "o", "n">> >>]
    >>

\* self.synonymes, a dict: its items in insertion order
synonymes ==
    <<
      [terme_principal |-> <<"d", "é", "v", "e", "l", "o", "p", "p", "e", "m", "e", "n", "t", " ", "w", "e", "b">>,
       synonymes |-> <<
          <<"d", "e", "v", " ", "w", "e", "b">>,
          <<"c", "r", "é", "a", "t", "i", "o", "n", " ", "w", "e", "b">>,
          <<"s", "i", "t", "e", " ", "w", "e", "b">>,
          <<"a", "p", "p", "l", "i", "c", "a", "t", "i", "o", "n", " ", "w", "e", "b">> >>],
      [terme_principal |-> <<"i", "n", "t", "e", "l", "l", "i", "g", "e", "n", "c", "e", " ", "a", "r", "t", "i", "f", "i", "c", "i", "e", "l", "l", "e">>,
       synonymes |-> <<
          <<"I", "A">>,
          <<"A", "I">>,
          <<"m", "a", "c", "h", "i", "n", "e", " ", "l", "e", "a", "r", "n", "i", "n", "g">>,
          <<"d", "e", "e", "p", " ", "l", "e", "a", "r", "n", "i", "n", "g">> >>],
      [terme_principal |-> <<"c", "y", "b", "e", "r", "s", "é", "c", "u", "r", "i", "t", "é">>,
       synonymes |-> <<
          <<"s", "é", "c", "u", "r", "i", "t", "é", " ", "i", "n", "f", "o", "r", "m", "a",
            "t", "i", "q", "u", "e">>,
          <<"s", "é", "c", "u", "r", "i", "t", "é", " ", "I", "T">>,
          <<"p", "r", "o", "t", "e", "c", "t", "i", "o", "n", " ", "d", "o", "n", "n", "é",
            "e", "s">> >>],
      [terme_principal |-> <<"i", "n", "f", "r", "a", "s", "t", "r", "u", "c", "t", "u", "r", "e", " ", "r", "é", "s", "e", "a", "u">>,
       synonymes |-> <<
          <<"r", "é", "s", "e", "a", "u", " ", "i", "n", "f", "o", "r", "m", "a", "t", "i",
            "q", "u", "e">>,
          <<"a", "d", "m", "i", "n", "i", "s", "t", "r", "a", "t", "i", "o", "n", " ", "r",
            "é", "s", "e", "a", "u">> >>],
      [terme_principal |-> <<"g", "é", "n", "i", "e", " ", "c", "i", "v", "i", "l">>,
       synonymes |-> <<
          <<"t", "r", "a", "v", "a", "u", "x", " ", "p", "u", "b", "l", "i", "c", "s">>,
          <<"B", "T", "P">>,
          <<"c", "o", "n", "s", "t", "r", "u", "c", "t", "i", "o", "n", " ", "c", "i", "v",
            "i", "l", "e">> >>],
      [terme_principal |-> <<"t", "r", "a", "n", "s", "p", "o", "r", "t", " ", "r", "o", "u", "t", "i", "e", "r">>,
       synonymes |-> <<
          <<"t", "r", "a", "n", "s", "p", "o", "r", "t", " ", "t", "e", "r", "r", "e", "s",
            "t", "r", "e">>,
          <<"r", "o", "u", "t", "a", "g", "e">> >>],
      [terme_principal |-> <<"é", "n", "e", "r", "g", "i", "e", " ", "s", "o", "l", "a", "i", "r", "e">>,
       synonymes |-> <<
          <<"p", "h", "o", "t", "o", "v", "o", "l", "t", "a", "ï", "q", "u", "e">>,
          <<"s", "o", "l", "a", "i", "r", "e", " ", "P", "V">>,
          <<"p", "a", "n", "n", "e", "a", "u", "x", " ", "s", "o", "l", "a", "i", "r", "e",
            "s">> >>],
      [terme_principal |-> <<"m", "a", "r", "k", "e", "t", "i", "n", "g", " ", "d", "i", "g", "i", "t", "a", "l">>,
       synonymes |-> <<
          <<"m", "a", "r", "k", "e", "t", "i", "n", "g", " ", "n", "u", "m", "é", "r", "i",
            "q", "u", "e">>,
          <<"w", "e", "b", "m", "a", "r", "k", "e", "t", "i", "n", "g">>,
          <<"d", "i", "g", "i", "t", "a", "l", " ", "m", "a", "r", "k", "e", "t", "i", "n",
            "g">> >>]
    >>

\* self.mots_cles_generiques
mots_cles_generiques ==
    <<
      <<"f", "o", "u", "r", "n", "i", "t", "u", "r", "e">>,
      <<"i", "n", "s", "t", "a", "l", "l", "a", "t", "i", "o", "n">>,
      <<"m", "a", "i", "n", "t", "e", "n", "a", "n", "c", "e">>,
      <<"f", "o", "r", "m", "a", "t", "i", "o", "n">>,
      <<"c", "o", "n", "s", "e", "i", "l">>,
      <<"a", "u", "d", "i", "t">>,
      <<"c", "e", "r", "t", "i", "f", "i", "c", "a", "t", "i", "o", "n">>,
      <<"c", "o", "n", "t", "r", "ô", "l", "e">>,
      <<"g", "e", "s", "t", "i", "o", "n">>,
      <<"d", "é", "v", "e", "l", "o", "p", "p", "e", "m", "e", "n", "t">>,
      <<"c", "r", "é", "a", "t", "i", "o", "n">>,
      <<"c", "o", "n", "c", "e", "p", "t", "i", "o", "n">>,
      <<"r", "é", "a", "l", "i", "s", "a", "t", "i", "o", "n">>,
      <<"l", "i", "v", "r", "a", "i", "s", "o", "n">>,
      <<"s", "u", "p", "p", "o", "r", "t">>,
      <<"a", "s", "s", "i", "s", "t", "a", "n", "c", "e">>,
      <<"e", "x", "p", "e", "r", "t", "i", "s", "e">>,
      <<"é", "t", "u", "d", "e">>,
      <<"a", "n", "a", "l", "y", "s", "e">>,
      <<"o", "p", "t", "i", "m", "i", "s", "a", "t", "i", "o", "n">> >>

\* _get_stop_words(): a set
_get_stop_words ==
    {
      <<"l", "e">>,
      <<"l", "a">>,
      <<"l", "e", "s">>,
      <<"u", "n">>,
      <<"u", "n", "e">>,
      <<"d", "e", "s">>,
      <<"d", "u">>,
      <<"d", "e">>,
      <<"e", "t">>,
      <<"o", "u">>,
      <<"m", "a", "i", "s">>,
      <<"d", "o", "n", "c">>,
      <<"o", "r">>,
      <<"n", "i">>,
      <<"c", "a", "r">>,
      <<"q", "u", "e">>,
      <<"q", "u", "i">>,
      <<"q", "u", "o", "i">>,
      <<"d", "o", "n", "t">>,
      <<"o", "ù">>,
      <<"c", "e">>,
      <<"s", "e">>,
      <<"s", "a">>,
      <<"s", "o", "n">>,
      <<"s", "e", "s">>,
      <<"l", "e", "u", "r">>,
      <<"l", "e", "u", "r", "s">>,
      <<"n", "o", "u", "s">>,
      <<"v", "o", "u", "s">>,
      <<"i", "l", "s">>,
      <<"e", "l", "l", "e", "s">>,
      <<"j", "e">>,
      <<"t", "u">>,
      <<"i", "l">>,
      <<"e", "l", "l", "e">>,
      <<"o", "n">>,
      <<"d", "a", "n", "s">>,
      <<"s", "u", "r">>,
      <<"a", "v", "e", "c">>,
      <<"p", "a", "r">>,
      <<"p", "o", "u", "r">>,
      <<"s", "a", "n", "s">>,
      <<"s", "o", "u", "s">>,
      <<"v", "e", "r", "s">>,
      <<"c", "h", "e", "z">>,
      <<"e", "n", "t", "r", "e">>,
      <<"j", "u", "s", "q", "u", "e">>,
      <<"d", "e", "p", "u", "i", "s">>,
      <<"p", "e", "n", "d", "a", "n", "t">>,
      <<"a", "v", "a", "n", "t">>,
      <<"a", "p", "r", "è", "s">>,
      <<"t", "r", "è", "s">>,
      <<"p", "l", "u", "s">>,
      <<"m", "o", "i", "n", "s">>,
      <<"a", "u", "s", "s", "i">>,
      <<"t", "o", "u", "t">>,
      <<"t", "o", "u", "s">>,
      <<"t", "o", "u", "t", "e">>,
      <<"t", "o", "u", "t", "e", "s">>,
      <<"a", "u", "t", "r", "e">>,
      <<"a", "u", "t", "r", "e", "s">>,
      <<"m", "ê", "m", "e">>,
      <<"m", "ê", "m", "e", "s">>,
      <<"t", "e", "l">>,
      <<"t", "e", "l", "l", "e">>,
      <<"c", "o", "m", "m", "e">>,
      <<"c", "o", "m", "m", "e", "n", "t">>,
      <<"q", "u", "a", "n", "d">>,
      <<"p", "o", "u", "r", "q", "u", "o", "i">>,
      <<"c", "o", "m", "b", "i", "e", "n">>,
      <<"e", "s", "t">>,
      <<"s", "o", "n", "t">>,
      <<"ê", "t", "r", "e">>,
      <<"a", "v", "o", "i", "r">>,
      <<"f", "a", "i", "r", "e">>,
      <<"d", "i", "r", "e">>,
      <<"a", "l", "l", "e", "r">>,
      <<"v", "o", "i", "r">>,
      <<"s", "a", "v", "o", "i", "r">>,
      <<"p", "o", "u", "v", "o", "i", "r">>,
      <<"v", "o", "u", "l", "o", "i", "r">>,
      <<"d", "e", "v", "o", "i", "r">>,
      <<"f", "a", "l", "l", "o", "i", "r">>,
      <<"v", "e", "n", "i", "r">>,
      <<"p", "r", "e", "n", "d", "r", "e">>,
      <<"d", "o", "n", "n", "e", "r">>,
      <<"m", "e", "t", "t", "r", "e">>,
      <<"p", "a", "r", "t", "i", "r">>,
      <<"s", "o", "r", "t", "i", "r">>,
      <<"p", "a", "s", "s", "e", "r">>,
      <<"r", "e", "s", "t", "e", "r">>,
      <<"t", "e", "n", "i", "r">>,
      <<"p", "o", "r", "t", "e", "r">>,
      <<"s", "u", "i", "v", "r", "e">>,
      <<"v", "i", "v", "r", "e">>,
      <<"m", "o", "u", "r", "i", "r">>,
      <<"s", "e", "l", "o", "n">>,
      <<"c", "o", "n", "c", "e", "r", "n", "a", "n", "t">>,
      <<"r", "e", "l", "a", "t", "i", "v", "e">>,
      <<"r", "e", "l", "a", "t", "i", "f">>,
      <<"c", "o", "n", "f", "o", "r", "m", "é", "m", "e", "n", "t">>,
      <<"c", "a", "d", "r", "e">>,
      <<"o", "b", "j", "e", "t">>,
      <<"r", "é", "f", "é", "r", "e", "n", "c", "e">>,
      <<"n", "u", "m", "é", "r", "o">>,
      <<"d", "a", "t", "e">>,
      <<"d", "é", "l", "a", "i">>,
      <<"m", "o", "n", "t", "a", "n", "t">>,
      <<"p", "r", "i", "x">>,
      <<"c", "o", "û", "t">>,
      <<"b", "u", "d", "g", "e", "t">>,
      <<"o", "f", "f", "r", "e">>,
      <<"d", "e", "m", "a", "n", "d", "e">>,
      <<"a", "p", "p", "e", "l">>,
      <<"m", "a", "r", "c", "h", "é">>,
      <<"p", "u", "b", "l", "i", "c">>,
      <<"c", "a", "h", "i", "e", "r">>,
      <<"c", "h", "a", "r", "g", "e", "s">>,
      <<"t", "e", "c", "h", "n", "i", "q", "u", "e">>,
      <<"a", "d", "m", "i", "n", "i", "s", "t", "r", "a", "t", "i", "f">>,
      <<"f", "i", "n", "a", "n", "c", "i", "e", "r">>,
      <<"a", "l">>,
      <<"e", "l">>,
      <<"w", "a">>,
      <<"f", "i">>,
      <<"m", "i", "n">>,
      <<"i", "l", "a">>,
      <<"a", "n">>,
      <<"m", "a">>,
      <<"l", "i">>,
      <<"b", "i">> }


\* ------------------------------------------------------------------------
\* KeywordExtractor.get_keywords_by_sector
\* ------------------------------------------------------------------------
\* the seeds of str.__hash__ that a process can draw at its start
HashSeeds == {0, 1, 2}

\* the distinct members of xs, each at the place of its first occurrence
RECURSIVE Dedup(_)
Dedup(xs) ==
    IF xs = << >> THEN << >>
    ELSE Val({ IF InList(xs[Len(xs)], d) THEN d ELSE Append(d, xs[Len(xs)])
             : d \in {Dedup(SubSeq(xs, 1, Len(xs) - 1))} })

Reverse(xs) == [i \in 1..Len(xs) |-> xs[Len(xs) + 1 - i]]

\* list(s) of the set of str that the insertions xs have filled. A set is
\* iterated in the order of the hashes of its members, which changes with the
\* seed of the process: three of the orders it can take
ListOfSet(xs, seed) ==
    Val({ IF seed = 0 \/ d = << >> THEN d
          ELSE IF seed = 1 THEN Reverse(d)
          ELSE Tail(d) \o <<Head(d)>>
        : d \in {Dedup(xs)} })

\* lines 129-132: the indexes of the keys that contain secteur_lower or that
\* secteur_lower contains
ClesPartielles(secteur_lower) ==
    { i \in 1..Len(keywords_by_sector) :
        \/ Contains(keywords_by_sector[i].key, secteur_lower)
        \/ Contains(secteur_lower, keywords_by_sector[i].key) }

\* lines 135-139: the keywords of the first n sectors that contain secteur_lower
RECURSIVE mots_cles_correspondants(_, _)
mots_cles_correspondants(n, secteur_lower) ==
    IF n = 0 THEN << >>
    ELSE mots_cles_correspondants(n - 1, secteur_lower)
           \o SelectSeq(keywords_by_sector[n].keywords,
                        LAMBDA keyword : Contains(Lower(keyword), secteur_lower))

\* variant: the keywords found are returned without list(set(...))
get_keywords_by_sector_sans_set(secteur, seed) ==
    Val({ IF \E i \in 1..Len(keywords_by_sector) : keywords_by_sector[i].key = secteur_lower
          THEN keywords_by_sector[CHOOSE i \in 1..Len(keywords_by_sector) :
                                      keywords_by_sector[i].key = secteur_lower].keywords
          ELSE IF ClesPartielles(secteur_lower) # {}
          THEN keywords_by_sector[CHOOSE i \in ClesPartielles(secteur_lower) :
                                      \A j \in ClesPartielles(secteur_lower) : i <= j].keywords
          ELSE IF mots_cles_correspondants(Len(keywords_by_sector), secteur_lower) # << >>
          THEN mots_cles_correspondants(Len(keywords_by_sector), secteur_lower)
          ELSE SliceTo(mots_cles_generiques, 10)
        : secteur_lower \in {Strip(Lower(secteur))} })

get_keywords_by_sector(secteur, seed) ==
    Val({ IF \E i \in 1..Len(keywords_by_sector) : keywords_by_sector[i].key = secteur_lower
          THEN keywords_by_sector[CHOOSE i \in 1..Len(keywords_by_sector) :
                                      keywords_by_sector[i].key = secteur_lower].keywords
          ELSE IF ClesPartielles(secteur_lower) # {}
          THEN keywords_by_sector[CHOOSE i \in ClesPartielles(secteur_lower) :
                                      \A j \in ClesPartielles(secteur_lower) : i <= j].keywords
          ELSE IF mots_cles_correspondants(Len(keywords_by_sector), secteur_lower) # << >>
          THEN ListOfSet(mots_cles_correspondants(Len(keywords_by_sector), secteur_lower),
                         seed)
          ELSE SliceTo(mots_cles_generiques, 10)
        : secteur_lower \in {Strip(Lower(secteur))} })

\* ------------------------------------------------------------------------
\* KeywordExtractor.extract_keywords_from_text
\* ------------------------------------------------------------------------
\* the class of characters of the regular expressions of lines 157 and 237
\* (its letters of Latin-1)
Lettres ==
    {"a", "b", "c", "d", "e", "f", "g", "h", "i", "j", "k", "l", "m", "n", "o", "p", "q",
      "r", "s", "t", "u", "v", "w", "x", "y", "z", "A", "B", "C", "D", "E", "F", "G", "H",
      "I", "J", "K", "L", "M", "N", "O", "P", "Q", "R", "S", "T", "U", "V", "W", "X", "Y",
      "Z", "à", "â", "ä", "é", "è", "ê", "ë", "ï", "î", "ô", "ö", "ù", "û", "ü", "ÿ", "ñ",
      "ç", "À", "Â", "Ä", "É", "È", "Ê", "Ë", "Ï", "Î", "Ô", "Ö", "Ù", "Û", "Ü", "Ñ", "Ç"}

Chiffres == {"0", "1", "2", "3", "4", "5", "6", "7", "8", "9"}

\* \w: the letters above, the digits, the underscore and the letters of other
\* alphabets, of which two
IsWordChar(c) == c \in Lettres \cup Chiffres \cup {"_", "ß", "ø"}

\* re.sub(r'\s+', ' ', texte) on the positions lo..hi of s: of each run of
\* white space the first character is kept, as a space
RECURSIVE CollapseSpacesIn(_, _, _)
CollapseSpacesIn(s, lo, hi) ==
    IF lo > hi THEN << >>
    ELSE IF lo = hi
    THEN IF ~IsSpace(s[lo]) THEN <<s[lo]>>
         ELSE IF lo > 1 /\ IsSpace(s[lo - 1]) THEN << >>
         ELSE <<" ">>
    ELSE CollapseSpacesIn(s, lo, (lo + hi) \div 2)
           \o CollapseSpacesIn(s, (lo + hi) \div 2 + 1, hi)

CollapseSpaces(s) == CollapseSpacesIn(s, 1, Len(s))

_clean_text(texte) ==
    Strip(CollapseSpaces([i \in 1..Len(texte) |->
              IF IsWordChar(texte[i]) \/ IsSpace(texte[i]) \/ texte[i] = "-"
              THEN texte[i] ELSE " "]))

\* the last position of the run of \w characters that starts at position i
RunEnd(s, i) ==
    CHOOSE j \in i..Len(s) :
        /\ \A k \in i..j : IsWordChar(s[k])
        /\ j = Len(s) \/ ~IsWordChar(s[j + 1])

\* re.findall(r'\b[...]{min_length,}\b', s) from position i on, min_length >= 1:
\* the runs of \w characters made of at least min_length letters of the class
RECURSIVE FindAll(_, _, _)
FindAll(s, i, min_length) ==
    IF i > Len(s) THEN << >>
    ELSE IF ~IsWordChar(s[i]) THEN FindAll(s, i + 1, min_length)
    ELSE Val({ (IF /\ \A k \in i..j : s[k] \in Lettres
                   /\ j - i + 1 >= min_length
                THEN <<SubSeq(s, i, j)>> ELSE << >>)
                 \o FindAll(s, j + 1, min_length)
             : j \in {RunEnd(s, i)} })

\* lines 160-165: the words kept, in lower case
mots_significatifs(texte, min_length) ==
    MapLower(SelectSeq(FindAll(_clean_text(texte), 1, min_length),
                       LAMBDA mot : Lower(mot) \notin _get_stop_words
                                      /\ Len(mot) >= min_length))

\* compteur[mot]
Occurrences(mots, mot) == Cardinality({i \in 1..Len(mots) : mots[i] = mot})

\* variant: an item goes before the items that have its frequency
RECURSIVE InsertFreqAvantEgaux(_, _)
InsertFreqAvantEgaux(sorted, x) ==
    IF sorted = << >> THEN <<x>>
    ELSE IF Head(sorted).freq > x.freq
    THEN <<Head(sorted)>> \o InsertFreqAvantEgaux(Tail(sorted), x)
    ELSE <<x>> \o sorted

\* sorted(..., key=freq, reverse=True) is stable: an item goes after the items
\* that have at least its frequency
RECURSIVE InsertFreq(_, _)
InsertFreq(sorted, x) ==
    IF sorted = << >> THEN <<x>>
    ELSE IF Head(sorted).freq >= x.freq
    THEN <<Head(sorted)>> \o InsertFreq(Tail(sorted), x)
    ELSE <<x>> \o sorted

RECURSIVE SortFreq(_)
SortFreq(items) ==
    IF items = << >> THEN << >>
    ELSE Val({ InsertFreq(debut, items[Len(items)])
             : debut \in {SortFreq(SubSeq(items, 1, Len(items) - 1))} })

extract_keywords_from_text(texte, min_length) ==
    IF texte = << >> THEN << >>
    ELSE Val({ Val({ [i \in 1..Len(mots_tries) |-> mots_tries[i].mot]
                   : mots_tries \in
                       {SliceTo(SortFreq([i \in 1..Len(cles) |->
                                    [mot |-> cles[i], freq |-> Occurrences(mots, cles[i])]]),
                                20)} })
             : mots \in {mots_significatifs(texte, min_length)},
               cles \in {Dedup(mots_significatifs(texte, min_length))} })

\* ------------------------------------------------------------------------
\* KeywordExtractor.suggest_related_keywords
\* ------------------------------------------------------------------------
\* set(s.split()): the maximal runs of characters of s that are not white space
MotsDe(s) ==
    { SubSeq(s, i, CHOOSE j \in i..Len(s) :
                       /\ \A k \in i..j : ~IsSpace(s[k])
                       /\ j = Len(s) \/ IsSpace(s[j + 1]))
    : i \in {i \in 1..Len(s) : ~IsSpace(s[i]) /\ (i = 1 \/ IsSpace(s[i - 1]))} }

\* lines 215 and 221: the two tests that add a keyword of the catalogue
EstLie(mot_cle_lower, mots_recherche, keyword) ==
    \/ Contains(Lower(keyword), mot_cle_lower) /\ Lower(keyword) # mot_cle_lower
    \/ /\ mots_recherche \cap MotsDe(Lower(keyword)) # {}
       /\ Cardinality(MotsDe(Lower(keyword))) > 1

\* lines 212-222: the keywords added from the first n sectors, in the order
\* of the additions
RECURSIVE suggestions_catalogue(_, _, _)
suggestions_catalogue(n, mot_cle_lower, mots_recherche) ==
    IF n = 0 THEN << >>
    ELSE suggestions_catalogue(n - 1, mot_cle_lower, mots_recherche)
           \o SelectSeq(keywords_by_sector[n].keywords,
                        LAMBDA keyword : EstLie(mot_cle_lower, mots_recherche, keyword))

\* lines 225-230: the terms added from the first n entries of synonymes
RECURSIVE suggestions_synonymes(_, _)
suggestions_synonymes(n, mot_cle_lower) ==
    IF n = 0 THEN << >>
    ELSE suggestions_synonymes(n - 1, mot_cle_lower)
           \o (IF mot_cle_lower = Lower(synonymes[n].terme_principal)
               THEN synonymes[n].synonymes
               ELSE IF InList(mot_cle_lower, MapLower(synonymes[n].synonymes))
               THEN <<synonymes[n].terme_principal>>
                      \o SelectSeq(synonymes[n].synonymes,
                                   LAMBDA s : Lower(s) # mot_cle_lower)
               ELSE << >>)

\* the additions to the set suggestions, in order
suggestions_ajoutees(mot_cle) ==
    Val({ suggestions_catalogue(Len(keywords_by_sector), mot_cle_lower,
                                MotsDe(mot_cle_lower))
            \o suggestions_synonymes(Len(synonymes), mot_cle_lower)
        : mot_cle_lower \in {Lower(mot_cle)} })

\* list(suggestions)[:limite] in a process of hash seed `seed`
suggest_related_keywords(mot_cle, limite, seed) ==
    SliceTo(ListOfSet(suggestions_ajoutees(mot_cle), seed), limite)

\* ------------------------------------------------------------------------
\* The methods of KeywordExtractor called one after the other, in a process
\* that can be restarted
\* ------------------------------------------------------------------------
\* the arguments of get_keywords_by_sector: " Informatique ", "info",
\* "transport routier", "audit", "Certification", "formation professionnelle",
\* "zzz", "" and "e"
SecteursDemandes ==
    {<<" ", "I", "n", "f", "o", "r", "m", "a", "t", "i", "q", "u", "e", " ">>,
     <<"i", "n", "f", "o">>,
     <<"t", "r", "a", "n", "s", "p", "o", "r", "t", " ", "r", "o", "u", "t", "i", "e", "r">>,
     <<"a", "u", "d", "i", "t">>,
     <<"C", "e", "r", "t", "i", "f", "i", "c", "a", "t", "i", "o", "n">>,
     <<"f", "o", "r", "m", "a", "t", "i", "o", "n", " ", "p", "r", "o", "f", "e", "s", "s", "i", "o", "n", "n", "e", "l", "l", "e">>,
     <<"z", "z", "z">>,
     <<>>,
     <<"e">>}

\* the arguments of extract_keywords_from_text: the empty text, texts with
\* stop words, repeated words, words in several cases, punctuation, digits,
\* and a text of 22 distinct words whose most frequent one comes last
TextesDemandes ==
    {<<>>,
     <<"W", "e", "b", " ", "w", "e", "b", " ", "l", "e", " ", "l", "a", " ", "d", "e", "s",
       " ", "r", "é", "s", "e", "a", "u">>,
     <<"a", "u", "d", "i", "t", " ", "r", "é", "s", "e", "a", "u", " ", "a", "u", "d", "i",
       "t", " ", "w", "e", "b", " ", "r", "é", "s", "e", "a", "u", " ", "a", "u", "d", "i",
       "t">>,
     <<"z", "e", "t", "a", " ", "a", "l", "p", "h", "a", " ", "z", "e", "t", "a", " ", "a",
       "l", "p", "h", "a", " ", "b", "e", "t", "a">>,
     <<"m", "a", "a", " ", "m", "a", "b", " ", "m", "a", "c", " ", "m", "a", "d", " ", "m",
       "a", "e", " ", "m", "a", "f", " ", "m", "a", "g", " ", "m", "a", "h", " ", "m", "a",
       "i", " ", "m", "a", "j", " ", "m", "a", "k", " ", "m", "b", "a", " ", "m", "b", "b",
       " ", "m", "b", "c", " ", "m", "b", "d", " ", "m", "b", "e", " ", "m", "b", "f", " ",
       "m", "b", "g", " ", "m", "b", "h", " ", "m", "b", "i", " ", "m", "b", "j", " ", "m",
       "b", "k", " ", "m", "b", "k", " ", "m", "b", "j", " ", "m", "b", "k">>,
     <<"P", "r", "ê", "t", "-", "à", "-", "p", "o", "r", "t", "e", "r", ",", " ", "I", "S",
       "O", " ", "1", "4", "0", "0", "1", ":", " ", "e", "-", "c", "o", "m", "m", "e", "r",
       "c", "e", " ", "&", " ", "a", "b", "c", "1", "2", "3", " ", "B", "2", "B", " ", "ß",
       "e", "t", "a">>,
     <<"B", "u", "d", "g", "e", "t", " ", "A", "P", "P", "E", "L", " ", "o", "f", "f", "r",
       "e", " ", "M", "a", "r", "c", "h", "é", " ", "t", "r", "a", "v", "a", "u", "x">>}

LongueursMin == {1, 3, 5}

\* the arguments of suggest_related_keywords: keywords with more candidates
\* than the limit, a synonym, a main term, and a word without any candidate
MotsClesDemandes ==
    {<<"f", "o", "r", "m", "a", "t", "i", "o", "n">>,
     <<"a", "u", "d", "i", "t">>,
     <<"D", "é", "v", "e", "l", "o", "p", "p", "e", "m", "e", "n", "t", " ", "w", "e", "b">>,
     <<"b", "t", "p">>,
     <<"z", "z", "z">>}

LimitesSuggestions == {3, 10}

InitMots ==
    /\ profil = ProfilParDefaut
    /\ appels_offres = << >>
    /\ clock = 0
    /\ tz_offset = 0
    /\ service = ScoringService
    /\ appel = NoCall
    /\ hash_seed \in HashSeeds
    /\ instances = << >>
    /\ requetes = << >>
    /\ db = << >>

\* the process is stopped and started again: str.__hash__ gets a new seed
Redemarrer ==
    /\ \E seed \in HashSeeds \ {hash_seed} : hash_seed' = seed
    /\ UNCHANGED <<profil, appels_offres, clock, tz_offset, service, appel,
                 instances, requetes, db>>

GetKeywordsBySector ==
    /\ \E secteur \in SecteursDemandes :
           appel' = [op |-> "get_keywords_by_sector", secteur |-> secteur,
                     result |-> get_keywords_by_sector(secteur, hash_seed)]
    /\ UNCHANGED <<profil, appels_offres, clock, tz_offset, service, hash_seed,
                 instances, requetes, db>>

ExtractKeywordsFromText ==
    /\ \E texte \in TextesDemandes, min_length \in LongueursMin :
           appel' = [op |-> "extract_keywords_from_text", texte |-> texte,
                     min_length |-> min_length,
                     result |-> extract_keywords_from_text(texte, min_length)]
    /\ UNCHANGED <<profil, appels_offres, clock, tz_offset, service, hash_seed,
                 instances, requetes, db>>

\* the calls of suggest_related_keywords and what each returns, by hash seed
AppelsSuggestRelatedKeywords ==
    { [seed |-> seed,
       appel |-> [op |-> "suggest_related_keywords", mot_cle |-> mot_cle,
                  limite |-> limite,
                  result |-> suggest_related_keywords(mot_cle, limite, seed)]]
    : seed \in HashSeeds, mot_cle \in MotsClesDemandes, limite \in LimitesSuggestions }

SuggestRelatedKeywords ==
    /\ \E a \in AppelsSuggestRelatedKeywords :
           /\ a.seed = hash_seed
           /\ appel' = a.appel
    /\ UNCHANGED <<profil, appels_offres, clock, tz_offset, service, hash_seed,
                 instances, requetes, db>>

NextMots ==
    \/ Redemarrer
    \/ GetKeywordsBySector
    \/ ExtractKeywordsFromText
    \/ SuggestRelatedKeywords

SpecMots == InitMots /\ [][NextMots]_vars

\* ------------------------------------------------------------------------
\* Properties of calculer_score_appel_offre (checked under SpecScore)
\* ------------------------------------------------------------------------
Calcule == appel.op = "calculer"

SousScoresDe(d) ==
    <<d.score_secteur, d.score_geographique, d.score_financier,
      d.score_temporel, d.score_mots_cles, d.score_classification>>

C2_TotalIsWeightedSum ==
    /\ poids.secteur + poids.geographique + poids.financier
         + poids.temporel + poids.mots_cles + poids.classification = 100
    /\ (Calcule /\ ~_est_exclu(appel.profil, appel.appel_offre)) =>
           appel.result.score_total =
                 25 * appel.result.score_secteur
               + 20 * appel.result.score_geographique
               + 20 * appel.result.score_financier
               + 15 * appel.result.score_temporel
               + 15 * appel.result.score_mots_cles
               + 5 * appel.result.score_classification

\* a call without exclusion whose six sub-scores are not all the same
C2_Witness ==
    /\ Calcule
    /\ ~_est_exclu(appel.profil, appel.appel_offre)
    /\ appel.result.score_secteur # appel.result.score_geographique
    /\ appel.result.score_financier # appel.result.score_temporel
    /\ appel.result.score_mots_cles # appel.result.score_classification

\* an excluded sector (resp. city) of the profile is, ignoring case, part of
\* the sector (resp. city) of the tender
ExclusionMatches(p, ao) ==
    \/ \E i \in 1..Len(p.secteurs_exclus) :
           Contains(Lower(ao.secteur), Lower(p.secteurs_exclus[i]))
    \/ \E i \in 1..Len(p.villes_exclues) :
           Contains(Lower(ao.ville), Lower(p.villes_exclues[i]))

\* C3: a matching exclusion forces the total to 0, whatever the sub-scores
C3_ExclusionForcesZero ==
    (Calcule /\ ExclusionMatches(appel.profil, appel.appel_offre)) =>
        appel.result.score_total = 0

\* an excluded tender whose six sub-scores are all 1.0
C3_Witness ==
    /\ Calcule
    /\ ExclusionMatches(appel.profil, appel.appel_offre)
    /\ \A k \in 1..6 : SousScoresDe(appel.result)[k] = Scale
    /\ appel.result.score_total = 0

SansExclusions(p) == [p EXCEPT !.secteurs_exclus = << >>, !.villes_exclues = << >>]

\* C4: an exclusion changes nothing but the total and the last penalty
C4_ExclusionFrame ==
    (Calcule /\ ExclusionMatches(appel.profil, appel.appel_offre)) =>
        LET sans == calculer_score_appel_offre(SansExclusions(appel.profil),
                                               appel.appel_offre, appel.now)
        IN  /\ SousScoresDe(appel.result) = SousScoresDe(sans)
            /\ appel.result.raisons = sans.raisons
            /\ appel.result.penalites = Append(sans.penalites, ExclusionPenalite)
            /\ appel.result.score_total = 0

\* an excluded tender that had earned reasons, another penalty and a
\* positive total
C4_Witness ==
    /\ Calcule
    /\ ExclusionMatches(appel.profil, appel.appel_offre)
    /\ appel.result.raisons # << >>
    /\ Len(appel.result.penalites) >= 2
    /\ calculer_score_appel_offre(SansExclusions(appel.profil),
                                  appel.appel_offre, appel.now).score_total > 0

\* C8: two calls on the same profile and tender return the same ScoreDetail,
\* whenever they run
C8_SameArgumentsSameScore ==
    [][(/\ appel.op = "calculer"
        /\ appel'.op = "calculer"
        /\ appel'.profil = appel.profil
        /\ appel'.appel_offre = appel.appel_offre)
       => appel'.result = appel.result]_vars

\* ------------------------------------------------------------------------
\* Properties of the ranking, the categorisation and the endpoint (checked
\* under Spec)
\* ------------------------------------------------------------------------
\* a call of recommander_appels_offres has returned appel.result
RankTermine == appel.op \in {"recommander", "requete"} /\ appel.pc = "fini"

\* position in the list given to the call
Pos(appel_offre) ==
    CHOOSE i \in 1..Len(appel.appels_offres) :
        appel.appels_offres[i].numero = appel_offre.numero

\* the candidates whose total reached the threshold
Qualifies ==
    {i \in 1..Len(appel.calcules) : appel.calcules[i].score_total >= appel.seuil}

\* C5: no returned pair has a total below the threshold in force, and a
\* candidate whose total equals the threshold is retained
C5_NothingBelowThreshold ==
    RankTermine =>
        /\ appel.seuil = service.seuil_recommandation
        /\ \A k \in 1..Len(appel.result) :
               appel.result[k].score_detail.score_total >= appel.seuil
        /\ \A i \in 1..Len(appel.calcules) :
               appel.calcules[i].score_total = appel.seuil =>
                   \E k \in 1..Len(appel.resultats) :
                       /\ appel.resultats[k].appel_offre = appel.appels_offres[i]
                       /\ appel.resultats[k].score_detail = appel.calcules[i]

\* a returned pair whose total is exactly a positive threshold
C5_Witness ==
    /\ RankTermine
    /\ appel.seuil > 0
    /\ \E k \in 1..Len(appel.result) :
           appel.result[k].score_detail.score_total = appel.seuil

\* C6: at most limite pairs are returned, none when limite <= 0
C6_AtMostLimit ==
    (appel.op = "recommander" /\ appel.pc = "fini") =>
        Len(appel.result) <= Max(appel.limite, 0)

\* candidate i is ranked before candidate j: a larger total, or the same
\* total and an earlier place in the list
Precede(i, j) ==
    \/ appel.calcules[i].score_total > appel.calcules[j].score_total
    \/ /\ appel.calcules[i].score_total = appel.calcules[j].score_total
       /\ i < j

\* C7: for limite >= 1 the result is the first limite qualifying candidates
\* in descending order of total, equal totals in the order of the list
C7_StableDescendingPrefix ==
    (RankTermine /\ appel.limite >= 1) =>
        LET res == appel.result
            places == {Pos(res[k].appel_offre) : k \in 1..Len(res)}
        IN  /\ Len(res) = Min(appel.limite, Cardinality(Qualifies))
            /\ places \subseteq Qualifies
            /\ \A k \in 1..Len(res) :
                   /\ res[k].appel_offre = appel.appels_offres[Pos(res[k].appel_offre)]
                   /\ res[k].score_detail = appel.calcules[Pos(res[k].appel_offre)]
            /\ \A k, l \in 1..Len(res) :
                   k < l => Precede(Pos(res[k].appel_offre), Pos(res[l].appel_offre))
            /\ \A q \in Qualifies \ places : \A i \in places : Precede(i, q)

\* a result with two equal totals, that leaves a qualifying candidate out and
\* does not start with the first candidate of the list
C7_Witness ==
    /\ RankTermine
    /\ appel.limite >= 1
    /\ Cardinality(Qualifies) > appel.limite
    /\ Len(appel.result) >= 2
    /\ appel.result[1].score_detail.score_total = appel.result[2].score_detail.score_total
    /\ Pos(appel.result[1].appel_offre) > 1

SeuilHaut == 8 * (TotalScale \div 10)

\* C9: the tier is high for a score >= 0.8, relevant for a score in
\* [threshold, 0.8), low otherwise; with the default threshold 0.8 is high,
\* 0.6 is relevant and 0.59 is low
C9_CategoriesByThreshold ==
    appel.op = "categoriser" =>
        /\ appel.result = "Tres pertinent" <=> appel.score >= SeuilHaut
        /\ appel.result = "Pertinent" <=>
               (appel.seuil <= appel.score /\ appel.score < SeuilHaut)
        /\ appel.result = "Peu pertinent" <=>
               (appel.score < appel.seuil /\ appel.score < SeuilHaut)
        /\ appel.seuil = 6 * (TotalScale \div 10) =>
               /\ appel.score = 8 * (TotalScale \div 10) => appel.result = "Tres pertinent"
               /\ appel.score = 6 * (TotalScale \div 10) => appel.result = "Pertinent"
               /\ appel.score = 59 * (TotalScale \div 100) => appel.result = "Peu pertinent"

\* the score 0.6 categorised by a service with the default threshold
C9_Witness ==
    /\ appel.op = "categoriser"
    /\ appel.seuil = ScoringService.seuil_recommandation
    /\ appel.score = 6 * (TotalScale \div 10)
    /\ appel.result = "Pertinent"

\* the endpoint has built its response
RequeteTerminee == appel.op = "requete" /\ appel.pc = "fini"

\* C10 as stated: every item of the response shows a total >= score_min and
\* is labelled relevant or high relevance
C10_ResponseTotalsAboveScoreMin ==
    RequeteTerminee =>
        \A k \in 1..Len(appel.reponse.recommendations) :
            /\ appel.reponse.recommendations[k].score.total >= appel.score_min
            /\ appel.reponse.recommendations[k].categorie \in {"Pertinent", "Tres pertinent"}

\* C10 as amended: the ranking and the categorisation of a request use its
\* score_min; the total of every item is >= score_min before it is rounded,
\* the total shown is at most 0.0005 below, and no item is labelled low
C10_SameThresholdUnrounded ==
    RequeteTerminee =>
        LET recs == appel.reponse.recommendations
        IN  /\ Len(recs) = Len(appel.result)
            /\ recs # << >> =>
                   /\ appel.seuil = appel.score_min
                   /\ service.seuil_recommandation = appel.score_min
            /\ \A k \in 1..Len(recs) :
                   /\ appel.result[k].score_detail.score_total >= appel.score_min
                   /\ recs[k].numero = appel.result[k].appel_offre.numero
                   /\ recs[k].score.total = Round3(appel.result[k].score_detail.score_total)
                   /\ 2 * recs[k].score.total + (TotalScale \div 1000) >= 2 * appel.score_min
                   /\ recs[k].categorie \in {"Pertinent", "Tres pertinent"}

\* a response to a request with score_min below the default threshold, with
\* an item whose total is below that default and is labelled relevant
C10_Witness ==
    /\ RequeteTerminee
    /\ appel.score_min < ScoringService.seuil_recommandation
    /\ \E k \in 1..Len(appel.reponse.recommendations) :
           /\ appel.result[k].score_detail.score_total < ScoringService.seuil_recommandation
           /\ appel.reponse.recommendations[k].categorie = "Pertinent"

\* ------------------------------------------------------------------------
\* Properties of the sub-scores (checked under SpecScore)
\* ------------------------------------------------------------------------
\* the reasons _score_temporel can append
RaisonsTemporelles ==
    {"Delai court selon vos preferences", "Delai moyen selon vos preferences",
     "Delai long selon vos preferences"}

\* the strings of a list
Elements(xs) == {xs[k] : k \in 1..Len(xs)}

\* C11: a tender whose deadline is before the current time gets the temporal
\* sub-score 0, the penalty of expiry and no temporal reason, whatever the
\* preference of delay
C11_ExpiredTemporalZero ==
    (Calcule /\ appel.appel_offre.date_limite < appel.now) =>
        /\ appel.result.score_temporel = 0
        /\ "Appel d'offre expire" \in Elements(appel.result.penalites)
        /\ Elements(appel.result.raisons) \cap RaisonsTemporelles = {}

\* an expired tender scored for a profile that accepts every delay
C11_Witness ==
    /\ Calcule
    /\ appel.appel_offre.date_limite < appel.now
    /\ appel.profil.delai_preference = "tous"
    /\ appel.result.score_temporel = 0

\* the end-to-end example has been scored
BoutEnBout ==
    /\ Calcule
    /\ appel.profil = ProfilBoutEnBout
    /\ appel.appel_offre = [AppelBoutEnBout EXCEPT !.numero = 1]

\* the sub-scores of the example other than the sector, its total and its tier
BoutEnBoutAutres ==
    /\ appel.result.exc = "none"
    /\ appel.result.score_geographique = Scale
    /\ appel.result.score_financier = Scale
    /\ appel.result.score_temporel = Scale
    /\ appel.result.score_mots_cles = Scale
    /\ appel.result.score_classification = Scale \div 2
    /\ appel.result.score_total > 8 * (TotalScale \div 10)
    /\ categoriser_recommandation(ScoringService, appel.result.score_total) = "Tres pertinent"

\* C12 as stated: the example gets a sector score of about 1.0 by the branch
\* of similar sectors, 1.0 for geography, finance, time and keywords, 0.5 for
\* classification, a total above 0.8 and the high tier
C12_ExampleSectorNearOne ==
    BoutEnBout =>
        /\ appel.result.score_secteur >= 95 * (Scale \div 100)
        /\ "Secteur similaire a vos activites" \in Elements(appel.result.raisons)
        /\ BoutEnBoutAutres

\* C12 as amended: the sector score of the example is the ratio 24/46 (0.52),
\* returned by the branch between 0.4 and 0.7 without a reason or a penalty;
\* the other sub-scores, the total above 0.8 and the high tier are as stated
C12_ExampleSectorRatio ==
    BoutEnBout =>
        /\ appel.result.score_secteur = (24 * Scale) \div 46
        /\ 4 * (Scale \div 10) < appel.result.score_secteur
        /\ appel.result.score_secteur < 7 * (Scale \div 10)
        /\ Elements(appel.result.raisons) \cap
               {"Secteur correspond a vos activites", "Secteur similaire a vos activites"} = {}
        /\ appel.result.penalites = << >>
        /\ BoutEnBoutAutres

\* the example scored, with a total between 0.85 and 0.86
C12_Witness ==
    /\ BoutEnBout
    /\ appel.result.score_total > 85 * (TotalScale \div 100)
    /\ appel.result.score_total < 86 * (TotalScale \div 100)

\* ------------------------------------------------------------------------
\* Properties of the instance (checked under Spec)
\* ------------------------------------------------------------------------
SommePoids(p) ==
    p.secteur + p.geographique + p.financier + p.temporel + p.mots_cles + p.classification

NeutresSansPreference ==
    /\ appel.profil.secteur_activite = << >> => appel.result.score_secteur = Scale \div 2
    /\ appel.profil.mots_cles_metier = << >> => appel.result.score_mots_cles = Scale \div 2
    /\ appel.profil.classifications_preferees = << >> =>
           appel.result.score_classification = Scale \div 2

\* C14 as stated: an empty list of sectors, of preferred cities, of keywords
\* or of preferred classifications gives its criterion the sub-score 0.5, and
\* no error is raised
C14_EmptyPreferenceNeutral ==
    Calcule =>
        /\ appel.result.exc = "none"
        /\ NeutresSansPreference
        /\ appel.profil.villes_preferees = << >> =>
               appel.result.score_geographique = Scale \div 2

\* C14 as amended: an empty list of sectors, of keywords or of preferred
\* classifications gives 0.5; with no preferred city the geography is decided
\* by the radius: national 0.8, regional 0.4, local 0.2, any other 0.5; no
\* error is raised
C14_EmptyPreferenceNeutralOrRadius ==
    Calcule =>
        /\ appel.result.exc = "none"
        /\ NeutresSansPreference
        /\ appel.profil.villes_preferees = << >> =>
               appel.result.score_geographique =
                   CASE appel.profil.rayon_intervention = "national" -> (8 * Scale) \div 10
                     [] appel.profil.rayon_intervention = "regional" -> (4 * Scale) \div 10
                     [] appel.profil.rayon_intervention = "local" -> (2 * Scale) \div 10
                     [] OTHER -> Scale \div 2

\* a profile with its four lists empty and a local radius, scored on a tender
\* that has a classification
C14_Witness ==
    /\ Calcule
    /\ appel.profil.secteur_activite = << >>
    /\ appel.profil.villes_preferees = << >>
    /\ appel.profil.mots_cles_metier = << >>
    /\ appel.profil.classifications_preferees = << >>
    /\ appel.profil.rayon_intervention = "local"
    /\ TruthyStr(appel.appel_offre.classification)
    /\ appel.result.score_geographique = (2 * Scale) \div 10
    /\ appel.result.score_classification = Scale \div 2

\* the radii and the delays that a branch of the scoring names
RayonsReconnus == {"local", "regional", "national"}
DelaisReconnus == {"court", "moyen", "long", "tous"}

\* C15 as stated: a profile whose radius or delay is outside the values the
\* branches recognise is not scored: the call fails with a validation error
C15_UnrecognisedEnumFails ==
    (Calcule /\ (\/ appel.profil.rayon_intervention \notin RayonsReconnus
                 \/ appel.profil.delai_preference \notin DelaisReconnus)) =>
        appel.result.exc = "ValidationError"

\* C15 as amended: a value outside the enumerations is rejected when the
\* profile is constructed and never reaches the scoring; the radius
\* "international" is in the enumeration, no branch names it, and it gets the
\* geography sub-score 0.5 unless the city of the tender is a preferred city
C15_EnumValidatedAtConstruction ==
    /\ profil.rayon_intervention \in Rayons
    /\ profil.delai_preference \in Delais
    /\ appel.op = "construire" =>
           (appel.exc = "ValidationError" <=>
                (\/ appel.donnees.rayon_intervention \notin Rayons
                 \/ appel.donnees.delai_preference \notin Delais))
    /\ Calcule =>
           /\ appel.profil.rayon_intervention \in Rayons
           /\ appel.profil.delai_preference \in Delais
           /\ appel.result.exc = "none"
           /\ (/\ appel.profil.rayon_intervention = "international"
               /\ ~InList(Strip(Lower(appel.appel_offre.ville)),
                          MapLowerStrip(appel.profil.villes_preferees))) =>
                  appel.result.score_geographique = Scale \div 2

\* a document with a radius outside the enumeration has been rejected
C15_Witness ==
    /\ appel.op = "construire"
    /\ appel.donnees.rayon_intervention \notin Rayons
    /\ appel.exc = "ValidationError"
    /\ profil # appel.donnees

\* the budget of the tender is above the ceiling of the profile
BudgetAuDessus ==
    /\ TruthyNum(appel.appel_offre.budget)
    /\ TruthyNum(appel.profil.budget_max)
    /\ appel.appel_offre.budget[1] > appel.profil.budget_max[1]

\* the guarantee of the tender is above the ceiling of the profile
CautionAuDessus ==
    /\ TruthyNum(appel.appel_offre.caution)
    /\ TruthyNum(appel.profil.caution_max)
    /\ appel.appel_offre.caution[1] > appel.profil.caution_max[1]

\* C16: the financial sub-score is never below 0.1; when the budget and the
\* guarantee are both above their ceilings it is exactly 0.1 and both
\* penalties are recorded
C16_FinancialFloor ==
    Calcule =>
        /\ appel.result.score_financier >= Scale \div 10
        /\ (BudgetAuDessus /\ CautionAuDessus) =>
               /\ appel.result.score_financier = Scale \div 10
               /\ "Budget superieur a votre capacite" \in Elements(appel.result.penalites)
               /\ "Caution trop elevee" \in Elements(appel.result.penalites)

\* a tender above both ceilings of the profile, scored 0.1 for finance
C16_Witness ==
    /\ Calcule
    /\ BudgetAuDessus
    /\ CautionAuDessus
    /\ appel.result.score_financier = Scale \div 10

\* C17: a tender whose budget is below the floor of the profile, and not
\* above its ceiling, has its financial score multiplied by 0.7 and the
\* penalty of a budget below expectations, also when the profile has no ceiling
C17_BelowMinimumPenalised ==
    (/\ Calcule
     /\ TruthyNum(appel.appel_offre.budget)
     /\ TruthyNum(appel.profil.budget_min)
     /\ appel.appel_offre.budget[1] < appel.profil.budget_min[1]
     /\ ~BudgetAuDessus) =>
        /\ "Budget inferieur a vos attentes" \in Elements(appel.result.penalites)
        /\ appel.result.score_financier =
               IF CautionAuDessus THEN Scale \div 10 ELSE (7 * Scale) \div 10

\* ------------------------------------------------------------------------
\* Properties of KeywordExtractor (checked under SpecMots)
\* ------------------------------------------------------------------------
\* the keywords of the catalogue that contain s, whatever their case
MotsClesContenant(s) ==
    { keywords_by_sector[i].keywords[k] :
        <<i, k>> \in { x \in (1..Len(keywords_by_sector)) \X (1..20) :
                         /\ x[2] <= Len(keywords_by_sector[x[1]].keywords)
                         /\ Contains(Lower(keywords_by_sector[x[1]].keywords[x[2]]), s) } }

\* C18: get_keywords_by_sector returns a list that is never empty: the
\* keywords of the key equal to the argument lower-cased and stripped; else
\* those of a key that contains it or that it contains; else the keywords
\* that contain it, each once; else the first 10 generic keywords
C18_SectorKeywordsNeverEmpty ==
    appel.op = "get_keywords_by_sector" =>
        LET s == Strip(Lower(appel.secteur))
            exactes == {i \in 1..Len(keywords_by_sector) : keywords_by_sector[i].key = s}
            partielles == ClesPartielles(s)
            contenant == MotsClesContenant(s)
        IN  /\ appel.result # << >>
            /\ exactes # {} =>
                   \E i \in exactes : appel.result = keywords_by_sector[i].keywords
            /\ (exactes = {} /\ partielles # {}) =>
                   \E i \in partielles : appel.result = keywords_by_sector[i].keywords
            /\ (exactes = {} /\ partielles = {} /\ contenant # {}) =>
                   /\ Elements(appel.result) = contenant
                   /\ Len(appel.result) = Cardinality(contenant)
            /\ (exactes = {} /\ partielles = {} /\ contenant = {}) =>
                   appel.result = SubSeq(mots_cles_generiques, 1, 10)

\* the argument "Certification", a keyword of two sectors and a part of a
\* third keyword: two keywords are returned
C18_Witness ==
    /\ appel.op = "get_keywords_by_sector"
    /\ Strip(Lower(appel.secteur)) =
           <<"c", "e", "r", "t", "i", "f", "i", "c", "a", "t", "i", "o", "n">>
    /\ ClesPartielles(Strip(Lower(appel.secteur))) = {}
    /\ Len(appel.result) = 2

\* ------------------------------------------------------------------------
\* C19: extract_keywords_from_text returns at most 20 distinct tokens, each a
\* significant token of the text; a token comes before another when it is
\* more frequent in the text, or as frequent and first met earlier; a token
\* left out is preceded in that order by the 20 returned; no returned token is
\* shorter than min_length or a stop word; the empty string gives the empty
\* list.
\* ------------------------------------------------------------------------
PremiereOccurrence(mots, mot) == CHOOSE i \in 1..Len(mots) :
    mots[i] = mot /\ \A k \in 1..(i - 1) : mots[k] # mot

\* a comes before b: more frequent, or as frequent and met first
PrecedeFreq(mots, a, b) ==
    \/ Occurrences(mots, a) > Occurrences(mots, b)
    \/ /\ Occurrences(mots, a) = Occurrences(mots, b)
       /\ PremiereOccurrence(mots, a) < PremiereOccurrence(mots, b)

C19_ExtractKeywordsOrdered ==
    appel.op = "extract_keywords_from_text" =>
        LET r == appel.result
            mots == mots_significatifs(appel.texte, appel.min_length)
        IN  /\ Len(r) <= 20
            /\ \A i \in 1..Len(r) :
                   /\ r[i] \in Elements(mots)
                   /\ Len(r[i]) >= appel.min_length
                   /\ r[i] \notin _get_stop_words
                   /\ \A j \in (i + 1)..Len(r) :
                          r[i] # r[j] /\ PrecedeFreq(mots, r[i], r[j])
            /\ \A mot \in Elements(mots) \ Elements(r) :
                   Len(r) = 20 /\ \A i \in 1..Len(r) : PrecedeFreq(mots, r[i], mot)
            /\ appel.texte = << >> => r = << >>

\* a text of more than 20 distinct tokens: 20 are returned, the most frequent
\* token, met last in the text, comes first, and tokens of equal frequency
\* follow in the order of the text
C19_Witness ==
    /\ appel.op = "extract_keywords_from_text"
    /\ Len(appel.result) = 20
    /\ LET mots == mots_significatifs(appel.texte, appel.min_length)
       IN  /\ Cardinality(Elements(mots)) > 20
           /\ appel.result[1] # mots[1]
           /\ Occurrences(mots, appel.result[1]) > Occurrences(mots, appel.result[2])
           /\ Occurrences(mots, appel.result[3]) = Occurrences(mots, appel.result[4])

\* the empty text gives the empty list
C19_WitnessVide ==
    /\ appel.op = "extract_keywords_from_text"
    /\ appel.texte = << >>
    /\ appel.result = << >>

\* ------------------------------------------------------------------------
\* C20: suggest_related_keywords is deterministic for a fixed input and a
\* fixed catalogue: two invocations with the same keyword and the same limit,
\* one after the other, return the same collection of keywords, also when
\* the candidates are more than the limit.
\* ------------------------------------------------------------------------
C20_SuggestDeterministic ==
    [][(/\ appel.op = "suggest_related_keywords"
        /\ appel'.op = "suggest_related_keywords"
        /\ appel'.mot_cle = appel.mot_cle
        /\ appel'.limite = appel.limite)
       => Elements(appel'.result) = Elements(appel.result)]_vars

\* ------------------------------------------------------------------------
\* C22: for a tender that is not expired the temporal sub-score follows the
\* table of the preference of delay: "tous" 0.8; "court" 1.0 up to 30 days
\* and then max(0.3, 1.0 - (days - 30)/100), which never rises with the days
\* and is never below 0.3; "moyen" 1.0 from 30 to 90 days, else 0.6; "long"
\* 1.0 above 90 days, else 0.7; a temporal reason is recorded exactly when
\* the sub-score is 1.0.
\* ------------------------------------------------------------------------
JoursRestants == (appel.appel_offre.date_limite - appel.now) \div HoursPerDay

\* days-remaining values the decay of "court" is compared on
JoursCompares == 0..140

\* the table of the claim, in units of 1/Scale
TableTemporelle(delai_preference, jours) ==
    IF delai_preference = "tous" THEN (8 * Scale) \div 10
    ELSE IF delai_preference = "court"
    THEN IF jours <= 30 THEN Scale
         ELSE Max((3 * Scale) \div 10, Scale - ((jours - 30) * Scale) \div 100)
    ELSE IF delai_preference = "moyen"
    THEN IF 30 <= jours /\ jours <= 90 THEN Scale ELSE (6 * Scale) \div 10
    ELSE IF jours > 90 THEN Scale ELSE (7 * Scale) \div 10

\* the temporal sub-score of the tender of the call if its deadline were
\* `jours` full days after the instant of the call
TemporelA(jours) ==
    _score_temporel(appel.profil,
                    [appel.appel_offre EXCEPT !.date_limite = appel.now + Jours(jours)],
                    << >>, << >>, appel.now).score

C22_WitnessBornes ==
    /\ Calcule
    /\ \/ appel.profil.delai_preference = "moyen" /\ JoursRestants = 29
       \/ appel.profil.delai_preference = "moyen" /\ JoursRestants = 30
       \/ appel.profil.delai_preference = "moyen" /\ JoursRestants = 90
       \/ appel.profil.delai_preference = "long" /\ JoursRestants = 91
    /\ appel.result.score_temporel =
           (IF JoursRestants = 29 THEN (6 * Scale) \div 10 ELSE Scale)

\* ------------------------------------------------------------------------
\* C23: with a sector list that is not empty, an exact match without regard
\* to case gives 1.0 and a reason; otherwise the largest similarity ratio m
\* over the sectors of the profile decides: m > 0.7 gives m and a reason,
\* 0.4 < m <= 0.7 gives m without reason or penalty, m <= 0.4 gives 0.1 and
\* the penalty of a distant sector.
\* ------------------------------------------------------------------------
RaisonsSecteur == {"Secteur correspond a vos activites", "Secteur similaire a vos activites"}
PenalitesSecteur == {"Secteur eloigne de vos activites"}

\* the similarity ratios of the sector of the tender of the call with the
\* sectors of the profile
RatiosSecteur ==
    { Ratio(Lower(appel.profil.secteur_activite[k]), Lower(appel.appel_offre.secteur))
    : k \in 1..Len(appel.profil.secteur_activite) }

\* the largest of them
RatioMaximal ==
    CHOOSE m \in RatiosSecteur :
        \A r \in RatiosSecteur : r.num * m.den <= m.num * r.den

CorrespondanceExacte ==
    \E k \in 1..Len(appel.profil.secteur_activite) :
        Lower(appel.profil.secteur_activite[k]) = Lower(appel.appel_offre.secteur)

C23_SectorThresholds ==
    (Calcule /\ appel.profil.secteur_activite # << >>) =>
        LET m == RatioMaximal
            raisons == Elements(appel.result.raisons) \cap RaisonsSecteur
            penalites == Elements(appel.result.penalites) \cap PenalitesSecteur
        IN  IF CorrespondanceExacte
            THEN /\ appel.result.score_secteur = Scale
                 /\ raisons = {"Secteur correspond a vos activites"}
                 /\ penalites = {}
            ELSE IF 10 * m.num > 7 * m.den
            THEN /\ appel.result.score_secteur = (m.num * Scale) \div m.den
                 /\ raisons = {"Secteur similaire a vos activites"}
                 /\ penalites = {}
            ELSE IF 10 * m.num > 4 * m.den
            THEN /\ appel.result.score_secteur = (m.num * Scale) \div m.den
                 /\ raisons = {}
                 /\ penalites = {}
            ELSE /\ appel.result.score_secteur = Scale \div 10
                 /\ raisons = {}
                 /\ penalites = PenalitesSecteur

\* the largest ratio is exactly 0.7: it is the sub-score and no reason is
\* recorded
C23_Witness ==
    /\ Calcule
    /\ appel.profil.secteur_activite # << >>
    /\ ~CorrespondanceExacte
    /\ 10 * RatioMaximal.num = 7 * RatioMaximal.den
    /\ appel.result.score_secteur = (7 * Scale) \div 10
    /\ Elements(appel.result.raisons) \cap RaisonsSecteur = {}

\* the largest ratio is exactly 0.4: the sub-score is 0.1, with the penalty
C23_WitnessQuatreDixiemes ==
    /\ Calcule
    /\ appel.profil.secteur_activite # << >>
    /\ 10 * RatioMaximal.num = 4 * RatioMaximal.den
    /\ appel.result.score_secteur = Scale \div 10
    /\ Elements(appel.result.penalites) \cap PenalitesSecteur # {}

\* ------------------------------------------------------------------------
\* C24: the cities are compared without regard to case and to surrounding
\* white space in every branch of the geographic sub-score: a tender city
\* equal to a preferred city gives 1.0; otherwise "national" gives 0.8,
\* "local" 0.2 with a penalty, "regional" 0.9 when the tender city and some
\* preferred city are in the same region of the table and 0.4 when not, and
\* any other radius 0.5.
\* ------------------------------------------------------------------------
\* the city, lower-cased and trimmed
VilleNormalisee(ville) == Strip(Lower(ville))

\* each city of the table is in one region only
RegionsDisjointes ==
    \A r1, r2 \in 1..Len(regions_maroc) :
        r1 # r2 => Elements(regions_maroc[r1]) \cap Elements(regions_maroc[r2]) = {}

\* the tender city and some preferred city, both normalised, are in the same
\* region
MemeRegionNormalisee ==
    \E r \in 1..Len(regions_maroc), k \in 1..Len(appel.profil.villes_preferees) :
        /\ VilleNormalisee(appel.appel_offre.ville) \in Elements(regions_maroc[r])
        /\ VilleNormalisee(appel.profil.villes_preferees[k]) \in Elements(regions_maroc[r])

VillePreferee ==
    \E k \in 1..Len(appel.profil.villes_preferees) :
        VilleNormalisee(appel.profil.villes_preferees[k])
            = VilleNormalisee(appel.appel_offre.ville)

C24_GeographyTrimmed ==
    Calcule =>
        /\ RegionsDisjointes
        /\ appel.result.score_geographique =
               (IF VillePreferee THEN Scale
                ELSE IF appel.profil.rayon_intervention = "national" THEN (8 * Scale) \div 10
                ELSE IF appel.profil.rayon_intervention = "local" THEN (2 * Scale) \div 10
                ELSE IF appel.profil.rayon_intervention = "regional"
                THEN (IF MemeRegionNormalisee THEN (9 * Scale) \div 10
                      ELSE (4 * Scale) \div 10)
                ELSE Scale \div 2)
        /\ (~VillePreferee /\ appel.profil.rayon_intervention = "local")
               => "Ville hors de votre zone locale" \in Elements(appel.result.penalites)

\* ------------------------------------------------------------------------
\* C25: the keyword sub-score and the number of keywords of the profile found
\* in the text of the tender.  Stated for a profile whose list is not empty,
\* by comparing the tender of the call with every tender of the catalogue in
\* which one more keyword is found.
\* ------------------------------------------------------------------------
\* how many keywords of the profile of the call are found in a tender
NombreTrouves(appel_offre) ==
    Cardinality({ k \in 1..Len(appel.profil.mots_cles_metier) :
                    Contains(TexteAnalyse(appel_offre),
                             Lower(appel.profil.mots_cles_metier[k])) })

\* the keyword sub-score of a tender for the profile of the call
ScoreMotsClesDe(appel_offre) ==
    _score_mots_cles(appel.profil, appel_offre, << >>, << >>).score

\* the tenders of the catalogue in which one keyword more is found than in
\* the tender of the call
UnMotCleDePlus ==
    { c \in 1..Len(Catalogue) :
        NombreTrouves(Catalogue[c]) = NombreTrouves(appel.appel_offre) + 1 }

\* C25 as stated: one more keyword found never lowers the sub-score, the
\* step from none found to one found included
C25_KeywordScoreMonotone ==
    (Calcule /\ appel.profil.mots_cles_metier # << >>) =>
        \A c \in UnMotCleDePlus :
            ScoreMotsClesDe(Catalogue[c]) >= appel.result.score_mots_cles

\* C25 amended: one more keyword found never lowers the sub-score once a
\* keyword is found; none found gives 0.2 and one found min(1.0, 1.5/total),
\* which is not below 0.2 for a list of at most 7 keywords and is below 0.2
\* for a list of 8 or more
C25_KeywordScoreMonotoneFromOne ==
    (Calcule /\ appel.profil.mots_cles_metier # << >>) =>
        LET total == Len(appel.profil.mots_cles_metier)
            trouves == NombreTrouves(appel.appel_offre)
        IN  /\ trouves = 0 => appel.result.score_mots_cles = (2 * Scale) \div 10
            /\ trouves = 1 =>
                   appel.result.score_mots_cles = Min(Scale, (3 * Scale) \div (2 * total))
            /\ \A c \in UnMotCleDePlus :
                   /\ (trouves >= 1 \/ total <= 7) =>
                          ScoreMotsClesDe(Catalogue[c]) >= appel.result.score_mots_cles
                   /\ (trouves = 0 /\ total >= 8) =>
                          ScoreMotsClesDe(Catalogue[c]) < appel.result.score_mots_cles

\* a list of ten keywords, none found in the tender of the call, one found in
\* another tender, scored lower
C25_Witness ==
    /\ Calcule
    /\ Len(appel.profil.mots_cles_metier) >= 8
    /\ NombreTrouves(appel.appel_offre) = 0
    /\ appel.result.score_mots_cles = (2 * Scale) \div 10
    /\ \E c \in UnMotCleDePlus :
           ScoreMotsClesDe(Catalogue[c]) < appel.result.score_mots_cles

\* a list of two keywords: one found scores more than none, two more than one
C25_WitnessCroissant ==
    /\ Calcule
    /\ Len(appel.profil.mots_cles_metier) = 2
    /\ NombreTrouves(appel.appel_offre) = 1
    /\ \E c \in UnMotCleDePlus :
           ScoreMotsClesDe(Catalogue[c]) > appel.result.score_mots_cles

\* ------------------------------------------------------------------------
\* Properties of the ranking near a deadline (checked under SpecEcheance)
\* ------------------------------------------------------------------------
\* the ScoreDetail of a tender found expired when it was scored
ExpireAuCalcul(score_detail) ==
    /\ score_detail.score_temporel = 0
    /\ "Appel d'offre expire" \in Elements(score_detail.penalites)

\* C26: with the default threshold 0.6 a call of recommander_appels_offres,
\* direct or from the endpoint, returns no tender that was expired when it
\* was scored
C26_NoExpiredRecommended ==
    (RankTermine /\ appel.seuil = 6 * (TotalScale \div 10)) =>
        \A k \in 1..Len(appel.result) : ~ExpireAuCalcul(appel.result[k].score_detail)

\* C27: in one call of recommander_appels_offres two candidates of the list
\* that differ in nothing but their place get the same temporal sub-score and
\* the same total
C27_SameInstantWithinRank ==
    RankTermine =>
        \A i, j \in 1..Len(appel.calcules) :
            [appel.appels_offres[i] EXCEPT !.numero = 0]
                = [appel.appels_offres[j] EXCEPT !.numero = 0]
            => /\ appel.calcules[i].score_temporel = appel.calcules[j].score_temporel
               /\ appel.calcules[i].score_total = appel.calcules[j].score_total

\* ------------------------------------------------------------------------
\* C30 (checked under SpecMots): the list returned by suggest_related_keywords
\* never holds the keyword it was asked about, compared without regard to
\* case
\* ------------------------------------------------------------------------
C30_NoSelfSuggestion ==
    appel.op = "suggest_related_keywords" =>
        \A k \in 1..Len(appel.result) : Lower(appel.result[k]) # Lower(appel.mot_cle)

\* ------------------------------------------------------------------------
\* C21
\* ------------------------------------------------------------------------
\* recommander_appels_offres run from its entry to its return with nothing
\* else touching svc
RECURSIVE RankRun(_, _, _)
RankRun(r, svc, now) ==
    IF r.pc = "fini" THEN r ELSE RankRun(RankStep(r, svc, now), svc, now)

\* lines 136-208: the response to a request served alone, whose ScoringService
\* holds the request's own score_min from line 176 to the end
ReponseSeule(p, liste, limite, score_min, utcnow, now) ==
    IF ~p.profil_complete
    THEN [success |-> FALSE, recommendations |-> << >>]
    ELSE LET appels_data == AppelsActifs(liste, utcnow)
             svc == [ScoringService EXCEPT !.seuil_recommandation = score_min]
         IN  IF appels_data = << >>
             THEN [success |-> TRUE, recommendations |-> << >>]
             ELSE FormaterReponse(svc,
                      RankRun(RankState(svc, p, appels_data, limite), svc, now).result)

RequeteFinie(r) == requetes[r].pc = "fini"

\* C21: with two requests interleaved in any order, the response of each one
\* is the response it gets when served alone: every recommendation kept has a
\* total of at least the request's own score_min, every tender dropped has a
\* lower one, and the category of each is the one its own ScoringService
\* gives; so the ScoringService of a request is only written by that request.
C21_RequestsDoNotInterfere ==
    /\ \A r \in Requetes :
           RequeteFinie(r) =>
               /\ requetes[r].reponse =
                      ReponseSeule(profil, appels_offres, requetes[r].limite,
                                   requetes[r].score_min, datetime_utcnow, datetime_now)
               /\ \A k \in 1..Len(requetes[r].reponse.recommendations) :
                      requetes[r].reponse.recommendations[k].score.total
                          >= Round3(requetes[r].score_min)
    /\ \A r \in Requetes :
           requetes[r].pc \in {"boucle", "fini"} /\ "seuil" \in DOMAIN requetes[r] =>
               instances[requetes[r].scoring_service].seuil_recommandation
                   = requetes[r].score_min
    /\ \A r, s \in Requetes :
           r # s /\ requetes[r].pc # "libre" /\ requetes[s].pc # "libre" =>
               requetes[r].scoring_service # requetes[s].scoring_service

\* both requests went through the loop and are answered; they carried
\* different score_min and the same limite, and their responses differ
C21_Witness ==
    /\ \A r \in Requetes : RequeteFinie(r) /\ "calcules" \in DOMAIN requetes[r]
    /\ requetes[1].score_min # requetes[2].score_min
    /\ requetes[1].limite = requetes[2].limite
    /\ requetes[1].reponse # requetes[2].reponse
    /\ Len(requetes[1].reponse.recommendations) > 0
    /\ Len(requetes[2].reponse.recommendations) > 0

\* ------------------------------------------------------------------------
\* C28, C29
\* ------------------------------------------------------------------------
\* the sum of the weights of the interactions recorded
RECURSIVE SommePoidsActions(_)
SommePoidsActions(interactions) ==
    IF interactions = << >> THEN 0
    ELSE points_de(Head(interactions)) + SommePoidsActions(Tail(interactions))

\* no request is between two of its database calls
AuRepos == \A r \in Requetes : requetes[r].pc \in {"libre", "fini"}

\* C28: for a user whose profile exists, once every request has been
\* answered, the stored score_engagement is the sum of the weights (vue 1,
\* clic 2, favori 5, candidature 10, ignore -1) of the interactions recorded:
\* no increment is lost or overwritten.
C28_EngagementIsSumOfWeights ==
    AuRepos /\ db.user_profiles # << >> =>
        db.user_profiles[1].score_engagement = SommePoidsActions(db.interactions_users)

\* the body holds no allowed preference field
SansChampAutorise(preferences) == DOMAIN preferences \cap champs_autorises = {}

\* C29: a step of update_preferences called with a body that holds no allowed
\* field leaves the stored documents as they are, date_modification
\* included, and the request ends with the status 400 and the detail
\* "Aucune préférence valide fournie".
C29_NoValidPreferenceIs400 ==
    [][\A r \in Requetes :
           (/\ requetes'[r] # requetes[r]
            /\ requetes'[r].op = "update_preferences"
            /\ SansChampAutorise(requetes'[r].preferences))
           => /\ db' = db
              /\ requetes'[r].pc = "fini" =>
                     requetes'[r].reponse =
                         Reponse(400, "Aucune préférence valide fournie")]_vars

====
